---- MODULE Spec2Model ----
(***************************************************************************)
(* Circulation and reservation engine of LibraryCLI (library/database.go). *)
(*                                                                         *)
(* The store is the SQLite database: the tables books, members, checkouts  *)
(* and reservations.  Rows are kept in rowid order (AUTOINCREMENT), a NULL *)
(* borrower_id / return_time / fulfilled_time is written NULL (0; rowids   *)
(* and timestamps start at 1).                                             *)
(***************************************************************************)
EXTENDS Integers, Sequences, FiniteSets, TLC

\* ------------------------------------------------------------------ bounds
MaxBooks == 2          \* book ids a caller may name / rows AddBook may create
MaxMembers == 3        \* member ids a caller may name / rows AddMember may create
MaxCheckouts == 3      \* rows of the checkouts table
MaxReservations == 2   \* rows ever inserted into the reservations table
MaxClock == 2          \* seconds CURRENT_TIMESTAMP may reach
FifoMembers == 4       \* members of the queue run: a holder and three who wait
FifoCheckouts == 4     \* rows of the checkouts table in the queue run
FifoReservations == 3  \* rows ever inserted into reservations in the queue run
NProcs == 2            \* callers that run calls at the same time
ConcMembers == 3       \* members in the runs of concurrent callers
ConcCheckouts == 3     \* rows of the checkouts table in those runs
ConcReservations == 2  \* rows ever inserted into reservations in those runs
MaxAuthMembers == 2    \* rows of the members table in the runs with passwords
MaxLegacy == 1         \* members the file held before password_hash was added

NULL == 0

\* const schemaVersion
schemaVersion == 3

\* ------------------------------------------------------------------ errors
ErrNone == "ok"
ErrBookNotFound == "book not found"
ErrBookNotAvailable == "book is not available"
ErrMemberNotFound == "member not found"
ErrAlreadyHave == "you already have this book checked out"
ErrDuplicateReservation == "member already has a reservation for this book"
ErrBookNotCheckedOut == "book is not checked out"
ErrScanNull == "sql: Scan error on column index 0, name \"borrower_id\": converting NULL to int64 is unsupported"
ErrNoActiveReservation == "no active reservation found for this book and member"
ErrBusy == "database is locked"
ErrNameEmpty == "member name cannot be empty"
ErrNameExists == "member with name already exists"
ErrPasswordEmpty == "password cannot be empty"
ErrPasswordTooShort == "password must be at least 1 character long"
ErrPasswordTooLong == "password too long (maximum 72 characters)"
ErrAuthFailed == "authentication failed: invalid member ID or password"
ErrNoPasswordSet == "member has not set up a password yet. Please contact administrator"
ErrResetNotFound == "member with ID not found"

\* ------------------------------------------------------------------ schema
\* The store right after NewDatabase on a fresh file: every table empty.
EmptyDb == [books |-> <<>>, members |-> 0, checkouts |-> <<>>,
            reservations |-> <<>>, resSeq |-> 0]

BookExists(d, b) == b \in 1..Len(d.books)
MemberExists(d, m) == m \in 1..d.members

\* INSERT INTO books(title, author, content): available DEFAULT 1, borrower_id NULL.
InsertBook(d) ==
    [d EXCEPT !.books = Append(@, [available |-> TRUE, borrower_id |-> NULL])]

\* INSERT INTO members(name, password_hash).
InsertMember(d) == [d EXCEPT !.members = @ + 1]

\* ------------------------------------------------------------------ SQL statements
\* UPDATE books SET available=0, borrower_id=? WHERE id=?
UpdateBookCheckedOut(d, b, m) ==
    [d EXCEPT !.books[b] = [available |-> FALSE, borrower_id |-> m]]

\* INSERT INTO checkouts(book_id, member_id) VALUES(?,?)
InsertCheckout(d, b, m) ==
    [d EXCEPT !.checkouts =
        Append(@, [book_id |-> b, member_id |-> m, return_time |-> NULL])]

\* Mutant: the WHERE clause tests return_time IS NOT NULL, so no open row is closed.
CloseCheckoutOnlyClosed(d, b, m, t) ==
    [d EXCEPT !.checkouts =
        [i \in 1..Len(@) |->
            IF @[i].book_id = b /\ @[i].member_id = m /\ @[i].return_time # NULL
            THEN [@[i] EXCEPT !.return_time = t]
            ELSE @[i]]]

\* Mutant: the WHERE clause has no book_id: every open checkout of the member
\* is closed.
CloseCheckoutAnyBook(d, b, m, t) ==
    [d EXCEPT !.checkouts =
        [i \in 1..Len(@) |->
            IF @[i].member_id = m /\ @[i].return_time = NULL
            THEN [@[i] EXCEPT !.return_time = t]
            ELSE @[i]]]

\* UPDATE checkouts SET return_time=CURRENT_TIMESTAMP
\*   WHERE book_id=? AND member_id=? AND return_time IS NULL
CloseCheckout(d, b, m, t) ==
    [d EXCEPT !.checkouts =
        [i \in 1..Len(@) |->
            IF @[i].book_id = b /\ @[i].member_id = m /\ @[i].return_time = NULL
            THEN [@[i] EXCEPT !.return_time = t]
            ELSE @[i]]]

\* INSERT INTO reservations(book_id, member_id) VALUES(?,?)
\*   reservation_time DEFAULT CURRENT_TIMESTAMP, fulfilled_time NULL
InsertReservation(d, b, m, t) ==
    [d EXCEPT !.reservations =
        Append(@, [id |-> d.resSeq + 1, book_id |-> b, member_id |-> m,
                   reservation_time |-> t, fulfilled_time |-> NULL]),
              !.resSeq = @ + 1]

\* Mutant: the borrower is left as it was.
UpdateBookBorrowerSkipped(d, b, m) == d

\* UPDATE books SET borrower_id=? WHERE id=?
UpdateBookBorrower(d, b, m) == [d EXCEPT !.books[b].borrower_id = m]

\* Mutant: the reservation is left open.
FulfilReservationSkipped(d, b, m, t) == d

\* UPDATE reservations SET fulfilled_time=CURRENT_TIMESTAMP WHERE book_id=? AND member_id=?
FulfilReservation(d, b, m, t) ==
    [d EXCEPT !.reservations =
        [i \in 1..Len(@) |->
            IF @[i].book_id = b /\ @[i].member_id = m
            THEN [@[i] EXCEPT !.fulfilled_time = t]
            ELSE @[i]]]

\* Mutant: available is set and the borrower is not cleared.
UpdateBookAvailableKeepsBorrower(d, b) == [d EXCEPT !.books[b].available = TRUE]

\* UPDATE books SET available=1, borrower_id=NULL WHERE id=?
UpdateBookAvailable(d, b) ==
    [d EXCEPT !.books[b] = [available |-> TRUE, borrower_id |-> NULL]]

\* The rows a WHERE clause keeps, in rowid order.
RECURSIVE SelectRows(_, _)
SelectRows(rows, keep) ==
    IF rows = <<>> THEN <<>>
    ELSE IF Head(rows).id \in keep
         THEN <<Head(rows)>> \o SelectRows(Tail(rows), keep)
         ELSE SelectRows(Tail(rows), keep)

\* ... WHERE book_id=? AND fulfilled_time IS NULL
OpenReservationIds(d, b) ==
    {d.reservations[i].id : i \in
        {j \in 1..Len(d.reservations) :
            d.reservations[j].book_id = b /\ d.reservations[j].fulfilled_time = NULL}}

\* ... WHERE book_id=? AND member_id=? AND fulfilled_time IS NULL
OpenReservationIdsOf(d, b, m) ==
    {d.reservations[i].id : i \in
        {j \in 1..Len(d.reservations) :
            /\ d.reservations[j].book_id = b
            /\ d.reservations[j].member_id = m
            /\ d.reservations[j].fulfilled_time = NULL}}

\* ORDER BY reservation_time: SQLite's sorter keeps rows with equal keys in scan
\* (rowid) order.  Insertion of each scanned row behind every row whose key is
\* not greater.
\* Mutant: a row goes in front of the rows with an equal key (an unstable sort).
RECURSIVE InsertSortedBeforeEqual(_, _)
InsertSortedBeforeEqual(sorted, r) ==
    IF sorted = <<>> THEN <<r>>
    ELSE IF Head(sorted).reservation_time < r.reservation_time
         THEN <<Head(sorted)>> \o InsertSortedBeforeEqual(Tail(sorted), r)
         ELSE <<r>> \o sorted

RECURSIVE InsertSorted(_, _)
InsertSorted(sorted, r) ==
    IF sorted = <<>> THEN <<r>>
    ELSE IF Head(sorted).reservation_time <= r.reservation_time
         THEN <<Head(sorted)>> \o InsertSorted(Tail(sorted), r)
         ELSE <<r>> \o sorted

RECURSIVE SortRows(_, _)
SortRows(acc, rows) ==
    IF rows = <<>> THEN acc
    ELSE SortRows(InsertSorted(acc, Head(rows)), Tail(rows))

OrderByReservationTime(rows) == SortRows(<<>>, rows)

\* SELECT ... FROM reservations WHERE book_id=? AND fulfilled_time IS NULL
\*   ORDER BY reservation_time   (the rows of the queue, head first)
OpenQueue(d, b) ==
    OrderByReservationTime(SelectRows(d.reservations, OpenReservationIds(d, b)))

\* Mutant: the WHERE clause has no member_id: every open reservation of the book goes.
DeleteOpenReservationsOfBook(d, b, m) ==
    [d EXCEPT !.reservations =
        SelectRows(@, {@[i].id : i \in 1..Len(@)} \ OpenReservationIds(d, b))]

\* DELETE FROM reservations WHERE book_id=? AND member_id=? AND fulfilled_time IS NULL
DeleteOpenReservations(d, b, m) ==
    [d EXCEPT !.reservations =
        SelectRows(@, {@[i].id : i \in 1..Len(@)} \ OpenReservationIdsOf(d, b, m))]

\* ------------------------------------------------------------------ transactions
\* What one call computes from the store it reads: the error it returns (ErrNone
\* for nil), the member id it returns, and the store after each of its write
\* statements, in order (none when it returns before writing).
TxResult(err, ret, writes) == [err |-> err, ret |-> ret, writes |-> writes]

\* The store a transaction commits: the image after its last write.
Committed(d, r) == IF r.writes = <<>> THEN d ELSE r.writes[Len(r.writes)]

\* Mutant: the availability of the book is not tested.
CheckoutBookTxNoAvailableTest(d, b, m) ==
    IF ~BookExists(d, b) THEN TxResult(ErrBookNotFound, 0, <<>>)
    ELSE IF ~MemberExists(d, m) THEN TxResult(ErrMemberNotFound, 0, <<>>)
    ELSE LET w1 == UpdateBookCheckedOut(d, b, m)
             w2 == InsertCheckout(w1, b, m)
         IN  TxResult(ErrNone, 0, <<w1, w2>>)

\* Database.CheckoutBook
CheckoutBookTx(d, b, m) ==
    IF ~BookExists(d, b) THEN TxResult(ErrBookNotFound, 0, <<>>)
    ELSE IF ~d.books[b].available THEN TxResult(ErrBookNotAvailable, 0, <<>>)
    ELSE IF ~MemberExists(d, m) THEN TxResult(ErrMemberNotFound, 0, <<>>)
    ELSE LET w1 == UpdateBookCheckedOut(d, b, m)
             w2 == InsertCheckout(w1, b, m)
         IN  TxResult(ErrNone, 0, <<w1, w2>>)

\* Mutant: the available branch also queues a reservation for the member.
ReserveImmediateAlsoQueues(d, b, m) ==
    LET w1 == UpdateBookCheckedOut(d, b, m)
        w2 == InsertCheckout(w1, b, m)
    IN  <<w1, w2, InsertReservation(w2, b, m, 1)>>

\* Database.ReserveBook, the branch taken when the book is available.
ReserveImmediateCheckout(d, b, m) ==
    LET w1 == UpdateBookCheckedOut(d, b, m)
        w2 == InsertCheckout(w1, b, m)
    IN  <<w1, w2>>

\* Mutant: no test for an open reservation of the same member.
ReserveQueuedNoDuplicateTest(d, b, m, t) ==
    IF d.books[b].borrower_id # NULL /\ d.books[b].borrower_id = m
    THEN TxResult(ErrAlreadyHave, 0, <<>>)
    ELSE TxResult(ErrNone, 0, <<InsertReservation(d, b, m, t)>>)

\* Mutant: no test for the member being the current borrower.
ReserveQueuedNoBorrowerTest(d, b, m, t) ==
    IF OpenReservationIdsOf(d, b, m) # {}
    THEN TxResult(ErrDuplicateReservation, 0, <<>>)
    ELSE TxResult(ErrNone, 0, <<InsertReservation(d, b, m, t)>>)

\* Mutant: the duplicate test looks at the fulfilled reservations of the member.
ReserveQueuedTestsFulfilled(d, b, m, t) ==
    IF d.books[b].borrower_id # NULL /\ d.books[b].borrower_id = m
    THEN TxResult(ErrAlreadyHave, 0, <<>>)
    ELSE IF \E i \in 1..Len(d.reservations) :
                /\ d.reservations[i].book_id = b
                /\ d.reservations[i].member_id = m
                /\ d.reservations[i].fulfilled_time # NULL
    THEN TxResult(ErrDuplicateReservation, 0, <<>>)
    ELSE TxResult(ErrNone, 0, <<InsertReservation(d, b, m, t)>>)

\* Database.ReserveBook, the checks and the insert made when the book is not available.
ReserveQueued(d, b, m, t) ==
    IF d.books[b].borrower_id # NULL /\ d.books[b].borrower_id = m
    THEN TxResult(ErrAlreadyHave, 0, <<>>)
    ELSE IF OpenReservationIdsOf(d, b, m) # {}
    THEN TxResult(ErrDuplicateReservation, 0, <<>>)
    ELSE TxResult(ErrNone, 0, <<InsertReservation(d, b, m, t)>>)

\* Database.ReserveBook
ReserveBookTx(d, b, m, t) ==
    IF ~BookExists(d, b) THEN TxResult(ErrBookNotFound, 0, <<>>)
    ELSE IF ~MemberExists(d, m) THEN TxResult(ErrMemberNotFound, 0, <<>>)
    ELSE IF d.books[b].available
    THEN TxResult(ErrNone, 0, ReserveImmediateCheckout(d, b, m))
    ELSE ReserveQueued(d, b, m, t)

\* Mutant: the return does not look at the queue; the book is made available
\* while members wait for it.
NextMemberIDNobody(d, b) == NULL

\* Mutant: ORDER BY reservation_time DESC, the newest open reservation.
NextMemberIDNewest(d, b) ==
    LET q == OpenQueue(d, b) IN IF q = <<>> THEN NULL ELSE q[Len(q)].member_id

\* SELECT member_id FROM reservations WHERE book_id=? AND fulfilled_time IS NULL
\*   ORDER BY reservation_time LIMIT 1      (NULL when there is no row)
NextMemberID(d, b) ==
    LET q == OpenQueue(d, b) IN IF q = <<>> THEN NULL ELSE q[1].member_id

\* Mutant: with nobody waiting the book is made available and the holder's
\* checkout is left open.
ReturnBookTxLeavesCheckoutOpen(d, b, t) ==
    IF ~BookExists(d, b) THEN TxResult(ErrBookNotFound, 0, <<>>)
    ELSE IF d.books[b].borrower_id = NULL THEN TxResult(ErrScanNull, 0, <<>>)
    ELSE IF d.books[b].available THEN TxResult(ErrBookNotCheckedOut, 0, <<>>)
    ELSE LET borrowerID == d.books[b].borrower_id
             w1 == CloseCheckout(d, b, borrowerID, t)
             next == NextMemberID(w1, b)
         IN  IF next # NULL
             THEN LET w2 == UpdateBookBorrower(w1, b, next)
                      w3 == FulfilReservation(w2, b, next, t)
                      w4 == InsertCheckout(w3, b, next)
                  IN  TxResult(ErrNone, borrowerID, <<w1, w2, w3, w4>>)
             ELSE TxResult(ErrNone, borrowerID, <<UpdateBookAvailable(d, b)>>)

\* Database.ReturnBook.  borrower_id is scanned into an int64: a NULL borrower
\* makes Scan fail before the available test is reached.
ReturnBookTx(d, b, t) ==
    IF ~BookExists(d, b) THEN TxResult(ErrBookNotFound, 0, <<>>)
    ELSE IF d.books[b].borrower_id = NULL THEN TxResult(ErrScanNull, 0, <<>>)
    ELSE IF d.books[b].available THEN TxResult(ErrBookNotCheckedOut, 0, <<>>)
    ELSE LET borrowerID == d.books[b].borrower_id
             w1 == CloseCheckout(d, b, borrowerID, t)
             next == NextMemberID(w1, b)
         IN  IF next # NULL
             THEN LET w2 == UpdateBookBorrower(w1, b, next)
                      w3 == FulfilReservation(w2, b, next, t)
                      w4 == InsertCheckout(w3, b, next)
                  IN  TxResult(ErrNone, borrowerID, <<w1, w2, w3, w4>>)
             ELSE TxResult(ErrNone, borrowerID, <<w1, UpdateBookAvailable(w1, b)>>)

\* Mutant: the DELETE has no fulfilled_time IS NULL: fulfilled reservations of the
\* member go as well.
CancelReservationTxAnyReservation(d, b, m) ==
    LET mine == {d.reservations[i].id : i \in
                    {j \in 1..Len(d.reservations) :
                        d.reservations[j].book_id = b /\ d.reservations[j].member_id = m}}
    IN  IF mine = {}
        THEN TxResult(ErrNoActiveReservation, 0, <<>>)
        ELSE TxResult(ErrNone, 0,
                <<[d EXCEPT !.reservations =
                     SelectRows(@, {@[i].id : i \in 1..Len(@)} \ mine)]>>)

\* Database.CancelReservation: one DELETE statement, an error when it removed no row.
CancelReservationTx(d, b, m) ==
    IF OpenReservationIdsOf(d, b, m) = {}
    THEN TxResult(ErrNoActiveReservation, 0, <<>>)
    ELSE TxResult(ErrNone, 0, <<DeleteOpenReservations(d, b, m)>>)

\* Database.AddBook / Database.AddMember: one INSERT statement each.
AddBookTx(d) == TxResult(ErrNone, Len(d.books) + 1, <<InsertBook(d)>>)
AddMemberTx(d) == TxResult(ErrNone, d.members + 1, <<InsertMember(d)>>)

\* Database.GetReservations: the members of the open queue, head first.
GetReservations(d, b) ==
    LET q == OpenQueue(d, b) IN [i \in 1..Len(q) |-> q[i].member_id]

\* ------------------------------------------------------------------ limits of a run
\* The tables are unbounded in the program.  A run of the model is given the ids
\* its callers may name and the rows its tables may hold, and stops offering a
\* call once a table that call may insert into is full.
Limits(nb, nm, nc, nr) == [books |-> nb, members |-> nm, checkouts |-> nc, reservations |-> nr]

RoomForCheckout(L, d) == Len(d.checkouts) < L.checkouts
RoomForReservation(L, d) == d.resSeq < L.reservations

\* ------------------------------------------------------------------ state
\* db:   the committed store (the database file).
\* now:  the second CURRENT_TIMESTAMP reads.
\* last: the call that returned last, with the error and the value it returned.
\* pre:  the store as it was when that call began.
\* tx:   per caller, the call it is in: where it stands, what it read, what it
\*       is about to write, what it returned, and how many statements it had
\*       executed that were rolled back.
\* shared, reserved, pending: the SQLite locks on the database file: the
\*       connections holding SHARED, the one holding RESERVED, the one holding
\*       PENDING/EXCLUSIVE (0 for none).
\* sdb:  the store the same calls leave when run one after the other, each at the
\*       moment it returned.
\* memberRows: the name and password_hash columns of the members table, by id.
\* lastSet: per member, the password most recently set by AddMember or by a
\*       successful ResetMemberPassword (none for a member that never had one).
\* auth: the AddMember / ResetMemberPassword / AuthenticateMember call that
\*       returned last, with its arguments and its error.
\* content: the content column of the books table, by id (a Go string: bytes).
\* rd:   the ReturnBookWithDetails call of the LibraryManager that is under
\*       way: where it stands, what its reads gave, what it returned, and the
\*       members its own ReturnBook step took the book from and gave it to.
\* catalog: the title and author columns of the books table, by id.
\* search: the SearchBooks call that returned last: the query text, how the
\*       query of the full-text index went, the error and the ids of the books
\*       returned, in the order returned, and the catalog it searched.
VARIABLES db, now, last, pre, tx, shared, reserved, pending, sdb,
          memberRows, lastSet, auth, content, rd, cmd, catalog, search,
          schema, boot
vars == <<db, now, last, pre, tx, shared, reserved, pending, sdb,
          memberRows, lastSet, auth, content, rd, cmd, catalog, search,
          schema, boot>>
searchVars == <<catalog, search>>
migVars == <<schema, boot>>
callerVars == <<tx, shared, reserved, pending, sdb>>
authVars == <<memberRows, lastSet, auth>>
mgrVars == <<content, rd, cmd>>

\* No ReturnBookWithDetails call has been made.
NoDetails == [pc |-> "idle", op |-> "none", book |-> 0, member |-> 0, authorized |-> FALSE,
              reservations |-> 0, returnedBy |-> 0, assignedTo |-> 0,
              err |-> ErrNone, closed |-> 0, handed |-> 0]

\* No reserve command has been given.
NoCommand == [pc |-> "idle", book |-> 0, member |-> 0, branch |-> "none",
              report |-> "none"]

\* The runs that do not look at book content or go through the LibraryManager.
InitNoMgr ==
    /\ content = <<>>
    /\ rd = NoDetails
    /\ cmd = NoCommand

NoSearch == [q |-> <<>>, fts |-> "none", err |-> ErrNone, books |-> <<>>,
             catalog |-> <<>>]

\* The file after applyMigrations: the tables, the full-text index with its
\* triggers, the password_hash column, and one schema_version row.
Migrated == [tables |-> TRUE, fts |-> TRUE, ftsDuplicates |-> 0, password_hash |-> TRUE,
             version |-> <<schemaVersion>>]

\* NewDatabase has returned the open store.
Opened == [pc |-> "open", currentVersion |-> 0, err |-> ErrNone,
           before |-> [db |-> EmptyDb, schema |-> Migrated],
           after |-> [db |-> EmptyDb, schema |-> Migrated]]

\* The runs that begin after NewDatabase has returned and do not open the file
\* again.
InitMigrated ==
    /\ schema = Migrated
    /\ boot = Opened

\* The runs that do not search.
InitNoSearch ==
    /\ catalog = <<>>
    /\ search = NoSearch

NoAuthCall == [op |-> "none", member |-> 0, password |-> <<>>, err |-> ErrNone]

\* The runs that do not look at names and passwords.
InitNoAuth ==
    /\ memberRows = <<>>
    /\ lastSet = <<>>
    /\ auth = NoAuthCall

Procs == 1..NProcs

NoPlan == [err |-> ErrNone, ret |-> 0, writes |-> <<>>]

\* A caller that has not called yet.
NoTx == [pc |-> "done", op |-> "none", book |-> 0, member |-> 0,
         inv |-> [available |-> FALSE, borrower_id |-> NULL, queued |-> FALSE],
         overlap |-> {}, start |-> EmptyDb, plan |-> NoPlan, step |-> 0,
         err |-> ErrNone, ret |-> 0, wrote |-> 0, undone |-> 0,
         serr |-> ErrNone, sret |-> 0, waited |-> FALSE]

InitCallers ==
    /\ tx = [p \in Procs |-> NoTx]
    /\ shared = {}
    /\ reserved = 0
    /\ pending = 0

Call(op, b, m, r) == [op |-> op, book |-> b, member |-> m, err |-> r.err, ret |-> r.ret]

NoCall == [op |-> "NewDatabase", book |-> 0, member |-> 0, err |-> ErrNone, ret |-> 0]

Init ==
    /\ db = EmptyDb
    /\ now = 1
    /\ last = NoCall
    /\ pre = EmptyDb
    /\ InitCallers
    /\ InitNoAuth
    /\ InitNoMgr
    /\ InitNoSearch
    /\ InitMigrated
    /\ sdb = EmptyDb

\* ------------------------------------------------------------------ calls, one at a time
\* Run one whole call against the store: commit its writes, return its result.
Run(op, b, m, r) ==
    /\ db' = Committed(db, r)
    /\ last' = Call(op, b, m, r)
    /\ pre' = db
    /\ UNCHANGED <<now, callerVars, authVars, mgrVars, searchVars, migVars>>

AddBook(L) ==
    /\ Len(db.books) < L.books
    /\ Run("AddBook", 0, 0, AddBookTx(db))

AddMember(L) ==
    /\ db.members < L.members
    /\ Run("AddMember", 0, 0, AddMemberTx(db))

CheckoutBook(L) ==
    \E b \in 1..L.books, m \in 1..L.members :
        /\ RoomForCheckout(L, db)
        /\ Run("CheckoutBook", b, m, CheckoutBookTx(db, b, m))

ReserveBook(L) ==
    \E b \in 1..L.books, m \in 1..L.members :
        /\ RoomForCheckout(L, db)
        /\ RoomForReservation(L, db)
        /\ Run("ReserveBook", b, m, ReserveBookTx(db, b, m, now))

ReturnBook(L) ==
    \E b \in 1..L.books :
        /\ RoomForCheckout(L, db)
        /\ Run("ReturnBook", b, 0, ReturnBookTx(db, b, now))

CancelReservation(L) ==
    \E b \in 1..L.books, m \in 1..L.members :
        LET r == CancelReservationTx(db, b, m)
        IN  Run("CancelReservation", b, m, r)

\* The wall clock behind CURRENT_TIMESTAMP moves on by a second.
Tick ==
    /\ now < MaxClock
    /\ now' = now + 1
    /\ UNCHANGED <<db, last, pre, callerVars, authVars, mgrVars, searchVars, migVars>>

Calls(L) ==
    \/ CheckoutBook(L)
    \/ ReserveBook(L)
    \/ ReturnBook(L)
    \/ CancelReservation(L)
    \/ Tick

SpecLimits == Limits(MaxBooks, MaxMembers, MaxCheckouts, MaxReservations)

Next ==
    \/ AddBook(SpecLimits)
    \/ AddMember(SpecLimits)
    \/ Calls(SpecLimits)

Spec == Init /\ [][Next]_vars

\* ------------------------------------------------------------------ the queue run
\* One book and FifoMembers members have been added (AddBook, then AddMember for
\* each); from there on the members check out, reserve, cancel and return.
RECURSIVE WithMembers(_, _)
WithMembers(d, n) == IF n = 0 THEN d ELSE WithMembers(InsertMember(d), n - 1)

FifoLimits == Limits(1, FifoMembers, FifoCheckouts, FifoReservations)

InitFifo ==
    /\ db = WithMembers(InsertBook(EmptyDb), FifoMembers)
    /\ now = 1
    /\ last = NoCall
    /\ pre = EmptyDb
    /\ InitCallers
    /\ InitNoAuth
    /\ InitNoMgr
    /\ InitNoSearch
    /\ InitMigrated
    /\ sdb = EmptyDb

NextFifo == Calls(FifoLimits)

SpecFifo == InitFifo /\ [][NextFifo]_vars

\* ------------------------------------------------------------------ the queue run, borrowers who return
LiveMembers == 3       \* members of the run in which every holder returns
LiveCheckouts == 4     \* rows of the checkouts table in that run
LiveReservations == 3  \* rows ever inserted into reservations in that run

LiveLimits == Limits(1, LiveMembers, LiveCheckouts, LiveReservations)

\* The checkouts table has room for the row of this call and for the rows of
\* the returns that hand the book on to every member who waits.
RoomToDrain(L, d) ==
    Len(d.checkouts) + Cardinality(UNION {OpenReservationIds(d, b) : b \in 1..Len(d.books)}) + 1
        < L.checkouts

\* The calls of the queue run; CheckoutBook and ReserveBook are offered as long
\* as the returns that have to follow them fit into the table.
NextLive ==
    \/ RoomToDrain(LiveLimits, db) /\ CheckoutBook(LiveLimits)
    \/ RoomToDrain(LiveLimits, db) /\ ReserveBook(LiveLimits)
    \/ ReturnBook(LiveLimits)
    \/ CancelReservation(LiveLimits)
    \/ Tick

InitLive ==
    /\ db = WithMembers(InsertBook(EmptyDb), LiveMembers)
    /\ now = 1
    /\ last = NoCall
    /\ pre = EmptyDb
    /\ InitCallers
    /\ InitNoAuth
    /\ InitNoMgr
    /\ InitNoSearch
    /\ InitMigrated
    /\ sdb = EmptyDb

\* Whoever holds the book returns it: a ReturnBook call that can change the
\* store is eventually made.
SpecLive == InitLive /\ [][NextLive]_vars /\ WF_vars(ReturnBook(LiveLimits))

\* ------------------------------------------------------------------ callers at the same time
\* Every call opens its own transaction on its own connection of the pool
\* (db.Begin, deferred), or, for CancelReservation, runs its one statement in
\* autocommit.  The connections share the database file in rollback-journal mode:
\* a statement that reads takes SHARED, the first statement that writes takes
\* RESERVED, Commit takes PENDING and then EXCLUSIVE once no other connection
\* holds SHARED.  What a connection has written and not committed lives in its own
\* page cache.  A connection that cannot take a lock calls the busy handler
\* (_busy_timeout=5000) unless it is inside a transaction that already holds
\* SHARED and asks for RESERVED: that request fails at once.
ConcLimits == Limits(1, ConcMembers, ConcCheckouts, ConcReservations)

InFlight == {p \in Procs : tx[p].pc # "done"}

\* Mutant: the transaction is left open, the connection keeps its locks.
ReleaseNothing(p) == UNCHANGED <<shared, reserved, pending>>

\* The locks once connection p has let go of all it held.
Release(p) ==
    /\ shared' = shared \ {p}
    /\ reserved' = IF reserved = p THEN 0 ELSE reserved
    /\ pending' = IF pending = p THEN 0 ELSE pending

\* Reading through to another connection's uncommitted pages.
ReadSnapshotUncommitted(d, dirty) == IF dirty = {} THEN d ELSE CHOOSE w \in dirty : TRUE

\* What a SELECT of a connection sees: the database file.  dirty is what the
\* other connections have written and not committed; it is in their caches.
ReadSnapshot(d, dirty) == d

\* A Commit that does not wait for the readers.
OtherReadersIgnored(holders, p) == {}

\* The connections other than p among the holders of SHARED: Commit of p gets
\* EXCLUSIVE once there is none.
OtherReaders(holders, p) == holders \ {p}

\* The uncommitted image of each connection other than p that has written.
DirtyOfOthers(p) ==
    {tx[q].plan.writes[tx[q].step] : q \in {r \in Procs \ {p} : tx[r].pc # "done" /\ tx[r].step > 0}}

\* The handler of a call run against store d in second t.
OpTx(op, d, b, m, t) ==
    CASE op = "CheckoutBook" -> CheckoutBookTx(d, b, m)
      [] op = "ReserveBook" -> ReserveBookTx(d, b, m, t)
      [] op = "ReturnBook" -> ReturnBookTx(d, b, t)
      [] op = "CancelReservation" -> CancelReservationTx(d, b, m)

\* Mutant: a call that met a locked store does not return; the handler begins
\* the call again.
ReturnsRetriesWhenLocked(p, err, ret, waited, inOrder) ==
    LET c == tx[p]
        sr == OpTx(c.op, sdb, c.book, c.member, now)
    IN  IF err = ErrBusy
        THEN /\ tx' = [tx EXCEPT ![p].pc = "begun", ![p].start = EmptyDb,
                                 ![p].plan = NoPlan, ![p].step = 0]
             /\ sdb' = sdb
        ELSE /\ tx' = [tx EXCEPT ![p].pc = "done", ![p].err = err, ![p].ret = ret,
                                 ![p].wrote = IF err = ErrNone THEN Len(c.plan.writes) ELSE 0,
                                 ![p].undone = IF err = ErrNone THEN 0 ELSE c.step,
                                 ![p].start = EmptyDb, ![p].plan = NoPlan, ![p].step = 0,
                                 ![p].serr = sr.err, ![p].sret = sr.ret,
                                 ![p].waited = waited]
             /\ sdb' = IF inOrder THEN Committed(sdb, sr) ELSE sdb

\* The call of p returns err and ret, having committed the statements of its
\* branch or none (the deferred tx.Rollback() undoes those of a call that
\* fails).  When it takes its place in the serial order, the serial
\* store moves on by the same call run on it.
Returns(p, err, ret, waited, inOrder) ==
    LET c == tx[p]
        sr == OpTx(c.op, sdb, c.book, c.member, now)
    IN  /\ tx' = [tx EXCEPT ![p].pc = "done", ![p].err = err, ![p].ret = ret,
                            ![p].wrote = IF err = ErrNone THEN Len(c.plan.writes) ELSE 0,
                            ![p].undone = IF err = ErrNone THEN 0 ELSE c.step,
                            ![p].start = EmptyDb, ![p].plan = NoPlan, ![p].step = 0,
                            ![p].serr = sr.err, ![p].sret = sr.ret,
                            ![p].waited = waited]
        /\ sdb' = IF inOrder THEN Committed(sdb, sr) ELSE sdb

ConcOps == {"CheckoutBook", "ReserveBook", "ReturnBook", "CancelReservation"}

\* A caller enters a call: db.Begin() of the handler (no lock yet), or the entry
\* of CancelReservation.  Each call in flight may insert one row in checkouts
\* and one in reservations.
Begin(p) ==
    \E op \in ConcOps, b \in 1..ConcLimits.books, m \in 1..ConcLimits.members :
        /\ tx[p].pc = "done"
        /\ op = "ReturnBook" => m = 1
        /\ Len(db.checkouts) + Cardinality(InFlight) < ConcLimits.checkouts
        /\ db.resSeq + Cardinality(InFlight) < ConcLimits.reservations
        /\ tx' = [q \in Procs |->
                    IF q = p
                    THEN [NoTx EXCEPT !.pc = "begun", !.op = op, !.book = b,
                            !.member = IF op = "ReturnBook" THEN 0 ELSE m,
                            !.inv = [available |-> db.books[b].available,
                                     borrower_id |-> db.books[b].borrower_id,
                                     queued |-> OpenReservationIdsOf(db, b, m) # {}],
                            !.overlap = InFlight]
                    ELSE IF q \in InFlight
                         THEN [tx[q] EXCEPT !.overlap = @ \cup {p}]
                         ELSE tx[q]]
        /\ UNCHANGED <<db, now, last, pre, shared, reserved, pending, sdb, authVars, mgrVars, searchVars, migVars>>

\* The first SELECT of a handler: the connection takes SHARED, which it gets
\* unless another connection holds PENDING, and the handler reads the store and
\* goes down the branch that store selects.
FirstSelect(p) ==
    /\ tx[p].pc = "begun"
    /\ tx[p].op # "CancelReservation"
    /\ pending = 0
    /\ shared' = shared \cup {p}
    /\ LET d == ReadSnapshot(db, DirtyOfOthers(p))
       IN  tx' = [tx EXCEPT ![p].pc = "intx", ![p].start = d,
                     ![p].plan = OpTx(tx[p].op, d, tx[p].book, tx[p].member, now)]
    /\ UNCHANGED <<db, now, last, pre, reserved, pending, sdb, authVars, mgrVars, searchVars, migVars>>

\* The DELETE of CancelReservation, in autocommit: the statement opens a write
\* transaction (SHARED, then RESERVED) and deletes in the connection's cache.
ExecDelete(p) ==
    /\ tx[p].pc = "begun"
    /\ tx[p].op = "CancelReservation"
    /\ pending = 0
    /\ reserved = 0
    /\ shared' = shared \cup {p}
    /\ reserved' = p
    /\ LET d == ReadSnapshot(db, DirtyOfOthers(p))
           r == OpTx(tx[p].op, d, tx[p].book, tx[p].member, now)
       IN  tx' = [tx EXCEPT ![p].pc = "intx", ![p].start = d, ![p].plan = r,
                            ![p].step = Len(r.writes)]
    /\ UNCHANGED <<db, now, last, pre, pending, sdb, authVars, mgrVars, searchVars, migVars>>

\* A connection that waits for a lock before it has read anything gives up when
\* the busy timeout runs out: the call fails with "database is locked".
BusyTimeout(p) ==
    /\ tx[p].pc = "begun"
    /\ \/ pending # 0
       \/ tx[p].op = "CancelReservation" /\ reserved # 0
    /\ Returns(p, ErrBusy, 0, TRUE, FALSE)
    /\ UNCHANGED <<db, now, last, pre, shared, reserved, pending, authVars, mgrVars, searchVars, migVars>>

\* The handler found an error in what it read: it returns it, and the deferred
\* tx.Rollback() ends the transaction.
ReturnError(p) ==
    /\ tx[p].pc = "intx"
    /\ tx[p].plan.writes = <<>>
    /\ Returns(p, tx[p].plan.err, tx[p].plan.ret, FALSE, TRUE)
    /\ Release(p)
    /\ UNCHANGED <<db, now, last, pre, authVars, mgrVars, searchVars, migVars>>

\* The first UPDATE/INSERT of the transaction: the connection takes RESERVED.
FirstWrite(p) ==
    /\ tx[p].pc = "intx"
    /\ tx[p].step = 0
    /\ tx[p].plan.writes # <<>>
    /\ reserved = 0
    /\ pending = 0
    /\ reserved' = p
    /\ tx' = [tx EXCEPT ![p].step = 1]
    /\ UNCHANGED <<db, now, last, pre, shared, pending, sdb, authVars, mgrVars, searchVars, migVars>>

\* The first UPDATE/INSERT while another connection holds RESERVED or PENDING:
\* SQLite does not wait (the connection holds SHARED inside a transaction), the
\* statement fails with "database is locked", the handler returns the error and
\* the deferred tx.Rollback() ends the transaction.
WriteLocked(p) ==
    /\ tx[p].pc = "intx"
    /\ tx[p].step = 0
    /\ tx[p].plan.writes # <<>>
    /\ reserved # 0 \/ pending # 0
    /\ Returns(p, ErrBusy, 0, FALSE, FALSE)
    /\ Release(p)
    /\ UNCHANGED <<db, now, last, pre, authVars, mgrVars, searchVars, migVars>>

\* A further UPDATE/INSERT of the transaction, in the connection's cache.
NextWrite(p) ==
    /\ tx[p].pc = "intx"
    /\ tx[p].step > 0
    /\ tx[p].step < Len(tx[p].plan.writes)
    /\ tx' = [tx EXCEPT ![p].step = @ + 1]
    /\ UNCHANGED <<db, now, last, pre, shared, reserved, pending, sdb, authVars, mgrVars, searchVars, migVars>>

\* tx.Commit() (or the end of the autocommit statement): the connection takes
\* PENDING, after which no other connection gets SHARED.
CommitStart(p) ==
    /\ tx[p].pc = "intx"
    /\ tx[p].step > 0
    /\ tx[p].step = Len(tx[p].plan.writes)
    /\ pending' = p
    /\ tx' = [tx EXCEPT ![p].pc = "committing"]
    /\ UNCHANGED <<db, now, last, pre, shared, reserved, sdb, authVars, mgrVars, searchVars, migVars>>

\* No other connection holds SHARED: the connection takes EXCLUSIVE, writes its
\* pages to the file, drops its locks, and the call returns.
CommitFinish(p) ==
    /\ tx[p].pc = "committing"
    /\ OtherReaders(shared, p) = {}
    /\ db' = Committed(db, tx[p].plan)
    /\ Returns(p, tx[p].plan.err, tx[p].plan.ret, FALSE, TRUE)
    /\ Release(p)
    /\ UNCHANGED <<now, last, pre, authVars, mgrVars, searchVars, migVars>>

\* Another connection keeps SHARED until the busy timeout runs out: Commit fails
\* with "database is locked", the driver rolls the transaction back.
CommitTimeout(p) ==
    /\ tx[p].pc = "committing"
    /\ OtherReaders(shared, p) # {}
    /\ Returns(p, ErrBusy, 0, TRUE, FALSE)
    /\ Release(p)
    /\ UNCHANGED <<db, now, last, pre, authVars, mgrVars, searchVars, migVars>>

InitConc ==
    /\ db = WithMembers(InsertBook(EmptyDb), ConcMembers)
    /\ now = 1
    /\ last = NoCall
    /\ pre = EmptyDb
    /\ InitCallers
    /\ InitNoAuth
    /\ InitNoMgr
    /\ InitNoSearch
    /\ InitMigrated
    /\ sdb = db

NextConc ==
    \E p \in Procs :
        \/ Begin(p)
        \/ FirstSelect(p)
        \/ ExecDelete(p)
        \/ BusyTimeout(p)
        \/ ReturnError(p)
        \/ FirstWrite(p)
        \/ WriteLocked(p)
        \/ NextWrite(p)
        \/ CommitStart(p)
        \/ CommitFinish(p)
        \/ CommitTimeout(p)

SpecConc == InitConc /\ [][NextConc]_vars

\* ------------------------------------------------------------------ callers that keep running
\* A step of the call caller p is in.  The caller's goroutine keeps being
\* scheduled, and a wait for a lock ends when the lock is free or when the busy
\* timeout of the connection has run out, so a call that can take a step does.
\* Nothing makes a caller begin another call.
Step(p) ==
    \/ FirstSelect(p)
    \/ ExecDelete(p)
    \/ BusyTimeout(p)
    \/ ReturnError(p)
    \/ FirstWrite(p)
    \/ WriteLocked(p)
    \/ NextWrite(p)
    \/ CommitStart(p)
    \/ CommitFinish(p)
    \/ CommitTimeout(p)

\* The run begins with the book checked out to member 1.
InitConcHeld ==
    /\ db = Committed(WithMembers(InsertBook(EmptyDb), ConcMembers),
                      CheckoutBookTx(WithMembers(InsertBook(EmptyDb), ConcMembers), 1, 1))
    /\ now = 1
    /\ last = NoCall
    /\ pre = EmptyDb
    /\ InitCallers
    /\ InitNoAuth
    /\ InitNoMgr
    /\ InitNoSearch
    /\ InitMigrated
    /\ sdb = db

SpecConcFair ==
    /\ InitConcHeld
    /\ [][NextConc]_vars
    /\ \A p \in Procs : WF_vars(Step(p))

\* ------------------------------------------------------------------ passwords
\* A password is a Go string: a sequence of bytes.
maxPasswordLength == 72
minPasswordLength == 1

\* The bytes of the key the Blowfish key schedule of bcrypt reads (18 words).
BlowfishKeyBytes == 72

WhiteSpace == {9, 10, 11, 12, 13, 32}

\* strings.TrimSpace(s) == ""
IsBlank(bytes) == \A i \in 1..Len(bytes) : bytes[i] \in WhiteSpace

RECURSIVE Repeat(_, _)
Repeat(byte, n) == IF n = 0 THEN <<>> ELSE <<byte>> \o Repeat(byte, n - 1)

\* The passwords the callers try: the empty one, a blank, two short ones, one
\* with a zero byte, one of the greatest length AddMember takes, and that one
\* with a byte more.
Passwords ==
    { <<>>, <<32>>, <<97>>, <<98>>, <<97, 0, 97>>,
      Repeat(97, maxPasswordLength), Repeat(97, maxPasswordLength) \o <<98>> }

\* What the bcrypt digest depends on besides salt and cost: the password with
\* a zero byte appended, read cyclically for the length of the Blowfish key.
BcryptKey(password) ==
    LET key == password \o <<0>>
    IN  [i \in 1..BlowfishKeyBytes |-> key[((i - 1) % Len(key)) + 1]]

\* A password_hash column: NULL, or the digest (salt and cost are stored in it
\* and used again by the comparison).
NullHash == [valid |-> FALSE, key |-> <<>>]

\* Database.HashPassword
HashPassword(password) ==
    IF IsBlank(password) THEN [err |-> ErrPasswordEmpty, hash |-> NullHash]
    ELSE IF Len(password) < minPasswordLength
    THEN [err |-> ErrPasswordTooShort, hash |-> NullHash]
    ELSE IF Len(password) > maxPasswordLength
    THEN [err |-> ErrPasswordTooLong, hash |-> NullHash]
    ELSE [err |-> ErrNone, hash |-> [valid |-> TRUE, key |-> BcryptKey(password)]]

\* Database.CheckPassword: bcrypt.CompareHashAndPassword hashes the password
\* with the salt and cost of the stored hash and compares the digests.
CheckPassword(password, hash) == BcryptKey(password) = hash.key

Names == {"", " ", "alice", "bob"}

NeverSet == [set |-> FALSE, password |-> <<>>]

AuthCall(op, m, password, err) ==
    [op |-> op, member |-> m, password |-> password, err |-> err]

\* Database.AddMember
AddMemberWithPassword ==
    \E name \in Names, password \in Passwords :
        LET h == HashPassword(password)
            err == IF name \in {"", " "} THEN ErrNameEmpty
                   ELSE IF h.err # ErrNone THEN h.err
                   ELSE IF \E i \in 1..Len(memberRows) : memberRows[i].name = name
                   THEN ErrNameExists
                   ELSE ErrNone
        IN  /\ Len(memberRows) < MaxAuthMembers
            /\ IF err = ErrNone
               THEN /\ memberRows' = Append(memberRows, [name |-> name, password_hash |-> h.hash])
                    /\ lastSet' = Append(lastSet, [set |-> TRUE, password |-> password])
                    /\ db' = InsertMember(db)
                    /\ auth' = AuthCall("AddMember", Len(memberRows) + 1, password, err)
               ELSE /\ auth' = AuthCall("AddMember", 0, password, err)
                    /\ UNCHANGED <<memberRows, lastSet, db>>
            /\ UNCHANGED <<now, last, pre, callerVars, mgrVars, searchVars, migVars>>

\* Database.ResetMemberPassword (the error of HashPassword comes back wrapped
\* in "invalid password: ...", written here as that error).
ResetMemberPassword ==
    \E m \in 1..MaxAuthMembers, password \in Passwords :
        LET h == HashPassword(password)
            err == IF h.err # ErrNone THEN h.err
                   ELSE IF m \notin 1..Len(memberRows) THEN ErrResetNotFound
                   ELSE ErrNone
        IN  /\ auth' = AuthCall("ResetMemberPassword", m, password, err)
            /\ IF err = ErrNone
               THEN /\ memberRows' = [memberRows EXCEPT ![m].password_hash = h.hash]
                    /\ lastSet' = [lastSet EXCEPT ![m] = [set |-> TRUE, password |-> password]]
               ELSE UNCHANGED <<memberRows, lastSet>>
            /\ UNCHANGED <<db, now, last, pre, callerVars, mgrVars, searchVars, migVars>>

\* Database.AuthenticateMember
AuthenticateMemberErr(rows, m, password) ==
    IF m \notin 1..Len(rows) THEN ErrAuthFailed
    ELSE IF ~rows[m].password_hash.valid \/ rows[m].password_hash.key = <<>>
    THEN ErrNoPasswordSet
    ELSE IF ~CheckPassword(password, rows[m].password_hash) THEN ErrAuthFailed
    ELSE ErrNone

AuthenticateMember ==
    \E m \in 1..MaxAuthMembers, password \in Passwords :
        /\ auth' = AuthCall("AuthenticateMember", m, password,
                            AuthenticateMemberErr(memberRows, m, password))
        /\ UNCHANGED <<db, now, last, pre, callerVars, mgrVars, searchVars, migVars, memberRows, lastSet>>

\* NewDatabase on a file that is new, or that held members before migration 3
\* added the password_hash column (DEFAULT NULL).
InitAuth ==
    /\ \E n \in 0..MaxLegacy :
          /\ memberRows = [i \in 1..n |-> [name |-> "carol", password_hash |-> NullHash]]
          /\ lastSet = [i \in 1..n |-> NeverSet]
          /\ db = WithMembers(EmptyDb, n)
    /\ auth = NoAuthCall
    /\ InitNoMgr
    /\ InitNoSearch
    /\ InitMigrated
    /\ now = 1
    /\ last = NoCall
    /\ pre = EmptyDb
    /\ InitCallers
    /\ sdb = EmptyDb

NextAuth ==
    \/ AddMemberWithPassword
    \/ ResetMemberPassword
    \/ AuthenticateMember

SpecAuth == InitAuth /\ [][NextAuth]_vars

\* ------------------------------------------------------------------ reading the store
OpenCheckouts(d, b) ==
    {i \in 1..Len(d.checkouts) :
        d.checkouts[i].book_id = b /\ d.checkouts[i].return_time = NULL}

Books(d) == 1..Len(d.books)
Members(d) == 1..d.members

\* ------------------------------------------------------------------ the LibraryManager
\* Two variants of the LibraryManager are in the repository: library/manager.go
\* (the one main.go calls) and a later one with authorization checks, whose
\* ReadBook goes through Database.ValidateReadBookAccess.
ErrNotCurrentlyCheckedOut == "book is not currently checked out"
ErrNotYourCheckout == "you can only return books that you have checked out"
ErrNoRows == "sql: no rows in result set"
ErrReadBookNotFound == "book not found: sql: no rows in result set"
ErrReadMemberNotFound == "member not found: sql: no rows in result set"
ErrReadCheckoutFailed == "failed to check out book"
ErrCheckedOutBy == "book is currently checked out by %s (ID: %d)"
ErrNoContent == "book has no content to read"
ErrAvailableNotYours == "book is available but not checked out to you. Please check out the book first to read it"
ErrCheckedOutByAnother == "book is currently checked out by another member"
ErrDetailsNotCheckedOut == "book %d is not checked out"

\* The book contents of a run: the empty one, one of white space only, a text.
Contents == { <<>>, <<32, 10>>, <<104, 105>> }

\* Mutant: the borrower is not compared with the member.
VerifyReturnAuthorizationAnyMember(d, b, m) ==
    IF ~BookExists(d, b) THEN TxResult(ErrBookNotFound, 0, <<>>)
    ELSE IF d.books[b].available THEN TxResult(ErrNotCurrentlyCheckedOut, 0, <<>>)
    ELSE TxResult(ErrNone, 0, <<>>)

\* Database.VerifyReturnAuthorization: one SELECT, no write.
VerifyReturnAuthorizationTx(d, b, m) ==
    IF ~BookExists(d, b) THEN TxResult(ErrBookNotFound, 0, <<>>)
    ELSE IF d.books[b].available THEN TxResult(ErrNotCurrentlyCheckedOut, 0, <<>>)
    ELSE IF d.books[b].borrower_id = NULL \/ d.books[b].borrower_id # m
    THEN TxResult(ErrNotYourCheckout, 0, <<>>)
    ELSE TxResult(ErrNone, 0, <<>>)

\* Database.GetBook: the row, with COALESCE(borrower_id, 0).
GetBook(d, c, b) ==
    IF ~BookExists(d, b)
    THEN [err |-> ErrNoRows, Available |-> FALSE, BorrowerID |-> 0, Content |-> <<>>]
    ELSE [err |-> ErrNone, Available |-> d.books[b].available,
          BorrowerID |-> IF d.books[b].borrower_id = NULL THEN 0 ELSE d.books[b].borrower_id,
          Content |-> c[b]]

\* Whether the reading interface was started (the value a ReadBook call is
\* recorded with).
ReaderOpened == 1
ReaderNotOpened == 0

\* Mutant: a book held by another member is read all the same.
ReadBookTxAnyBorrower(d, c, b, m) ==
    LET book == GetBook(d, c, b)
        co == IF book.err = ErrNone /\ book.Available
              THEN CheckoutBookTx(d, b, m) ELSE TxResult(ErrNone, 0, <<>>)
    IN  IF book.err # ErrNone THEN TxResult(ErrReadBookNotFound, ReaderNotOpened, <<>>)
        ELSE IF ~MemberExists(d, m) THEN TxResult(ErrReadMemberNotFound, ReaderNotOpened, <<>>)
        ELSE IF co.err # ErrNone THEN TxResult(ErrReadCheckoutFailed, ReaderNotOpened, <<>>)
        ELSE IF IsBlank(book.Content) THEN TxResult(ErrNoContent, ReaderNotOpened, co.writes)
        ELSE TxResult(ErrNone, ReaderOpened, co.writes)

\* LibraryManager.ReadBook of library/manager.go: GetBook, GetMember, CheckoutBook
\* when the book is available, then the test of the content, then the reader.
ReadBookTx(d, c, b, m) ==
    LET book == GetBook(d, c, b)
        co == IF book.err = ErrNone /\ book.Available
              THEN CheckoutBookTx(d, b, m) ELSE TxResult(ErrNone, 0, <<>>)
    IN  IF book.err # ErrNone THEN TxResult(ErrReadBookNotFound, ReaderNotOpened, <<>>)
        ELSE IF ~MemberExists(d, m) THEN TxResult(ErrReadMemberNotFound, ReaderNotOpened, <<>>)
        ELSE IF co.err # ErrNone THEN TxResult(ErrReadCheckoutFailed, ReaderNotOpened, <<>>)
        ELSE IF ~book.Available /\ book.BorrowerID # m
        THEN TxResult(ErrCheckedOutBy, ReaderNotOpened, <<>>)
        ELSE IF IsBlank(book.Content) THEN TxResult(ErrNoContent, ReaderNotOpened, co.writes)
        ELSE TxResult(ErrNone, ReaderOpened, co.writes)

\* Database.ValidateReadBookAccess: two SELECTs, no write.
ValidateReadBookAccess(d, c, b, m) ==
    LET be == BookExists(d, b)
        me == MemberExists(d, m)
        available == be /\ d.books[b].available
        hasContent == be /\ ~IsBlank(c[b])
    IN  [BookExists |-> be,
         BookAvailable |-> available,
         BookBorrowerID |-> IF be THEN d.books[b].borrower_id ELSE 0,
         BookContentLength |-> IF be THEN Len(c[b]) ELSE 0,
         HasContent |-> hasContent,
         MemberExists |-> me,
         CanAutoCheckout |-> be /\ me /\ available /\ hasContent,
         CanRead |-> /\ be /\ me /\ hasContent
                     /\ (available \/ (d.books[b].borrower_id # NULL
                                        /\ d.books[b].borrower_id = m))]

\* The bytes of the content ReadBook looks at for white space.
SampleLength == 1000

\* Database.GetBookContentChunk(b, 0, length)
GetBookContentChunk(c, b, length) ==
    SubSeq(c[b], 1, IF Len(c[b]) < length THEN Len(c[b]) ELSE length)

\* LibraryManager.ReadBook of the variant with authorization checks: the
\* validation, then the reader; no statement of it writes.
ReadBookValidatedTx(d, c, b, m) ==
    LET v == ValidateReadBookAccess(d, c, b, m)
    IN  IF ~v.BookExists THEN TxResult(ErrBookNotFound, ReaderNotOpened, <<>>)
        ELSE IF ~v.MemberExists THEN TxResult(ErrMemberNotFound, ReaderNotOpened, <<>>)
        ELSE IF ~v.HasContent THEN TxResult(ErrNoContent, ReaderNotOpened, <<>>)
        ELSE IF v.BookContentLength > 0 /\ IsBlank(GetBookContentChunk(c, b, SampleLength))
        THEN TxResult(ErrNoContent, ReaderNotOpened, <<>>)
        ELSE IF ~v.CanRead
        THEN IF v.BookAvailable THEN TxResult(ErrAvailableNotYours, ReaderNotOpened, <<>>)
             ELSE TxResult(ErrCheckedOutByAnother, ReaderNotOpened, <<>>)
        ELSE TxResult(ErrNone, ReaderOpened, <<>>)

\* ------------------------------------------------------------------ the manager run
\* One book with some content and MgrMemberIds - 1 members have been added;
\* the callers name book ids up to MgrBookIds and member ids up to MgrMemberIds,
\* so the last id of each kind is one the store does not have.
MgrBookIds == 2
MgrMemberIds == 3
MgrCheckouts == 3
MgrReservations == 2

MgrLimits == Limits(MgrBookIds, MgrMemberIds, MgrCheckouts, MgrReservations)

VerifyReturnAuthorization(L) ==
    \E b \in 1..L.books, m \in 1..L.members :
        Run("VerifyReturnAuthorization", b, m, VerifyReturnAuthorizationTx(db, b, m))

\* LibraryManager.ReadBook of library/manager.go
ReadBook(L) ==
    \E b \in 1..L.books, m \in 1..L.members :
        /\ RoomForCheckout(L, db)
        /\ Run("ReadBook", b, m, ReadBookTx(db, content, b, m))

\* LibraryManager.ReadBook of the variant with authorization checks
ReadBookValidated(L) ==
    \E b \in 1..L.books, m \in 1..L.members :
        Run("ReadBook (ValidateReadBookAccess)", b, m,
            ReadBookValidatedTx(db, content, b, m))

\* LibraryManager.ReturnBookWithDetails and the authorized
\* LibraryManager.ReturnBook(b, m), one store call per step; the calls of other
\* callers run between its steps.
DetailsDone(err, returnedBy, assignedTo) ==
    [rd EXCEPT !.pc = "done", !.err = err,
               !.returnedBy = returnedBy, !.assignedTo = assignedTo]

\* The call begins: ReturnBookWithDetails(b) of library/manager.go, or
\* ReturnBookWithDetails(b, m) or ReturnBook(b, m) of the variant with
\* authorization checks.
DetailsBegin(L) ==
    /\ rd.pc \in {"idle", "done"}
    /\ \E b \in 1..L.books, authorized \in BOOLEAN :
          \E m \in (IF authorized THEN 1..L.members ELSE {0}),
             op \in (IF authorized THEN {"ReturnBookWithDetails", "ReturnBook"}
                     ELSE {"ReturnBookWithDetails"}) :
              rd' = [NoDetails EXCEPT !.pc = IF authorized THEN "verify" ELSE "getBook",
                                      !.op = op,
                                      !.book = b, !.member = m,
                                      !.authorized = authorized]
    /\ UNCHANGED <<db, now, last, pre, content, cmd, callerVars, authVars, searchVars, migVars>>

DetailsVerify ==
    /\ rd.pc = "verify"
    /\ LET r == VerifyReturnAuthorizationTx(db, rd.book, rd.member)
       IN  rd' = IF r.err # ErrNone THEN DetailsDone(r.err, 0, 0)
                 ELSE IF rd.op = "ReturnBook" THEN [rd EXCEPT !.pc = "returnBook"]
                 ELSE [rd EXCEPT !.pc = "getBook"]
    /\ UNCHANGED <<db, now, last, pre, content, cmd, callerVars, authVars, searchVars, migVars>>

DetailsGetBook ==
    /\ rd.pc = "getBook"
    /\ LET book == GetBook(db, content, rd.book)
       IN  rd' = IF book.err # ErrNone THEN DetailsDone(book.err, 0, 0)
                 ELSE IF book.Available THEN DetailsDone(ErrDetailsNotCheckedOut, 0, 0)
                 ELSE [rd EXCEPT !.pc = "getReservations"]
    /\ UNCHANGED <<db, now, last, pre, content, cmd, callerVars, authVars, searchVars, migVars>>

DetailsGetReservations ==
    /\ rd.pc = "getReservations"
    /\ rd' = [rd EXCEPT !.pc = "returnBook",
                        !.reservations = Len(GetReservations(db, rd.book))]
    /\ UNCHANGED <<db, now, last, pre, content, cmd, callerVars, authVars, searchVars, migVars>>

\* The return step.  closed and handed record what this ReturnBook did: the
\* member whose open checkout it closed, and the member it gave the book to
\* (0 when it made the book available).
DetailsReturnBook(L) ==
    /\ rd.pc = "returnBook"
    /\ RoomForCheckout(L, db)
    /\ LET r == ReturnBookTx(db, rd.book, now)
           after == Committed(db, r)
           open == {db.checkouts[i].member_id : i \in
                       {j \in 1..Len(db.checkouts) :
                           /\ db.checkouts[j].book_id = rd.book
                           /\ db.checkouts[j].return_time = NULL}}
       IN  /\ db' = after
           /\ last' = Call("ReturnBook", rd.book, 0, r)
           /\ pre' = db
           /\ rd' = IF r.err # ErrNone THEN DetailsDone(r.err, 0, 0)
                    ELSE [rd EXCEPT !.pc = IF rd.op = "ReturnBook" THEN "done"
                                           ELSE "getBookAfter",
                                    !.returnedBy = r.ret,
                                    !.closed = IF open = {} THEN 0
                                               ELSE CHOOSE m \in open : TRUE,
                                    !.handed = IF after.books[rd.book].available THEN 0
                                               ELSE after.books[rd.book].borrower_id]
    /\ UNCHANGED <<now, content, cmd, callerVars, authVars, searchVars, migVars>>

DetailsGetBookAfter ==
    /\ rd.pc = "getBookAfter"
    /\ LET bookAfter == GetBook(db, content, rd.book)
       IN  rd' = IF bookAfter.err # ErrNone THEN DetailsDone(ErrNone, rd.returnedBy, 0)
                 ELSE IF ~bookAfter.Available /\ rd.reservations > 0
                 THEN DetailsDone(ErrNone, rd.returnedBy, bookAfter.BorrowerID)
                 ELSE DetailsDone(ErrNone, rd.returnedBy, 0)
    /\ UNCHANGED <<db, now, last, pre, content, cmd, callerVars, authVars, searchVars, migVars>>

ReturnBookWithDetails(L) ==
    \/ DetailsBegin(L)
    \/ DetailsVerify
    \/ DetailsGetBook
    \/ DetailsGetReservations
    \/ DetailsReturnBook(L)
    \/ DetailsGetBookAfter

\* NewLibraryManager, then AddBook with some content and AddMember for each member.
InitMgr ==
    /\ db = WithMembers(InsertBook(EmptyDb), MgrMemberIds - 1)
    /\ content \in [1..(MgrBookIds - 1) -> Contents]
    /\ rd = NoDetails
    /\ cmd = NoCommand
    /\ InitNoSearch
    /\ InitMigrated
    /\ now = 1
    /\ last = NoCall
    /\ pre = EmptyDb
    /\ InitCallers
    /\ InitNoAuth
    /\ sdb = EmptyDb

\* The clock stands still in this run: every reservation is made within one
\* second.
NextMgr ==
    \/ CheckoutBook(MgrLimits)
    \/ ReserveBook(MgrLimits)
    \/ ReturnBook(MgrLimits)
    \/ CancelReservation(MgrLimits)
    \/ VerifyReturnAuthorization(MgrLimits)
    \/ ReadBook(MgrLimits)
    \/ ReadBookValidated(MgrLimits)
    \/ ReturnBookWithDetails(MgrLimits)

SpecMgr == InitMgr /\ [][NextMgr]_vars

\* ------------------------------------------------------------------ the reserve command
CliBookIds == 2        \* book ids a caller may name; the store has one book fewer
CliMemberIds == 3      \* member ids a caller may name; the store has one member fewer
CliCheckouts == 3      \* rows of the checkouts table
CliReservations == 2   \* rows ever inserted into the reservations table

CliLimits == Limits(CliBookIds, CliMemberIds, CliCheckouts, CliReservations)

\* What handleReserve prints.
ReportError == "Error: %v"
ReportReserved == "Reserved successfully."
ReportImmediate == "Book was available and has been checked out immediately."
ReportQueued == "Book reserved successfully. You will be notified when it becomes available."

\* handleReserve up to the return of mgr.ReserveBook.  branch records what the
\* ReserveBook call did: the immediate checkout or the insert into the queue.
HandleReserveCall(L) ==
    /\ cmd.pc \in {"idle", "done"}
    /\ RoomForCheckout(L, db)
    /\ RoomForReservation(L, db)
    /\ \E b \in 1..L.books, m \in 1..L.members :
          LET r == ReserveBookTx(db, b, m, now)
          IN  /\ db' = Committed(db, r)
              /\ last' = Call("ReserveBook", b, m, r)
              /\ pre' = db
              /\ cmd' = IF r.err # ErrNone
                        THEN [NoCommand EXCEPT !.pc = "done", !.book = b, !.member = m,
                                               !.report = ReportError]
                        ELSE [NoCommand EXCEPT !.pc = "getBook", !.book = b, !.member = m,
                                               !.branch = IF db.books[b].available
                                                          THEN "ImmediateCheckout"
                                                          ELSE "Queued"]
    /\ UNCHANGED <<now, content, rd, callerVars, authVars, searchVars, migVars>>

\* handleReserve from mgr.GetBook to the message it prints.
HandleReserveReport ==
    /\ cmd.pc = "getBook"
    /\ LET book == GetBook(db, content, cmd.book)
       IN  cmd' = [cmd EXCEPT !.pc = "done",
                              !.report = IF book.err # ErrNone THEN ReportReserved
                                         ELSE IF ~book.Available /\ book.BorrowerID = cmd.member
                                         THEN ReportImmediate
                                         ELSE ReportQueued]
    /\ UNCHANGED <<db, now, last, pre, content, rd, callerVars, authVars, searchVars, migVars>>

handleReserve(L) ==
    \/ HandleReserveCall(L)
    \/ HandleReserveReport

\* NewLibraryManager, then AddBook and AddMember for each member.
InitCli ==
    /\ db = WithMembers(InsertBook(EmptyDb), CliMemberIds - 1)
    /\ content = [b \in 1..(CliBookIds - 1) |-> <<>>]
    /\ rd = NoDetails
    /\ cmd = NoCommand
    /\ InitNoSearch
    /\ InitMigrated
    /\ now = 1
    /\ last = NoCall
    /\ pre = EmptyDb
    /\ InitCallers
    /\ InitNoAuth
    /\ sdb = EmptyDb

\* The reserve command of one session, and the calls of the other sessions on
\* the same store.
NextCli ==
    \/ CheckoutBook(CliLimits)
    \/ ReserveBook(CliLimits)
    \/ ReturnBook(CliLimits)
    \/ CancelReservation(CliLimits)
    \/ handleReserve(CliLimits)

SpecCli == InitCli /\ [][NextCli]_vars

\* ------------------------------------------------------------------ search
\* Titles, authors and query texts are Go strings: sequences of bytes.
Percent == 37
Underscore == 95

\* "Go", "a%" and the empty title; "Al" and "_"
Titles == { <<71, 111>>, <<97, 37>>, <<>> }
Authors == { <<65, 108>>, <<95>> }

\* "", "o", "go", "Go", "%", "_", "a%"
Queries == { <<>>, <<111>>, <<103, 111>>, <<71, 111>>, <<37>>, <<95>>, <<97, 37>> }

MaxCatalog == 2

\* How the query of the full-text index went: it gave rows; db.Query returned
\* an error (the statement could not be prepared: the index table is not
\* there); or the first rows.Next() failed (the MATCH expression, which is a
\* bound parameter, is malformed) and rows.Err() holds the error.
FtsOutcomes == {"rows", "query error", "rows error"}

ErrFts == "fts5: syntax error"

\* LIKE of SQLite folds the case of ASCII letters.
FoldCase(b) == IF b \in 65..90 THEN b + 32 ELSE b

\* s LIKE pattern, as SQLite evaluates it without an ESCAPE clause: % stands
\* for any run of bytes, _ for any one byte.
RECURSIVE Like(_, _)
Like(s, pattern) ==
    IF pattern = <<>> THEN s = <<>>
    ELSE IF Head(pattern) = Percent
    THEN Like(s, Tail(pattern)) \/ (s # <<>> /\ Like(Tail(s), pattern))
    ELSE IF s = <<>> THEN FALSE
    ELSE IF Head(pattern) = Underscore THEN Like(Tail(s), Tail(pattern))
    ELSE FoldCase(Head(s)) = FoldCase(Head(pattern)) /\ Like(Tail(s), Tail(pattern))

\* likePattern := "%" + q + "%"
LikePattern(q) == <<Percent>> \o q \o <<Percent>>

\* The ids of a set of books in ascending order (ORDER BY id).
RECURSIVE OrderById(_)
OrderById(ids) ==
    IF ids = {} THEN <<>>
    ELSE LET least == CHOOSE i \in ids : \A j \in ids : i <= j
         IN  <<least>> \o OrderById(ids \ {least})

\* SELECT ... FROM books WHERE title LIKE ? OR author LIKE ? ORDER BY id
FallbackQuery(rows, q) ==
    OrderById({i \in 1..Len(rows) :
                 \/ Like(rows[i].title, LikePattern(q))
                 \/ Like(rows[i].author, LikePattern(q))})

\* The orders in which the full-text index may rank the books of a set.
Rankings(ids) ==
    {r \in UNION {[1..n -> ids] : n \in 0..Cardinality(ids)} :
        \A i, j \in 1..Len(r) : i # j => r[i] # r[j]}

\* Database.SearchBooks
SearchBooks ==
    \E q \in Queries, fts \in FtsOutcomes :
        /\ \/ /\ fts = "rows"
              /\ \E r \in Rankings(1..Len(catalog)) :
                    search' = [q |-> q, fts |-> fts, err |-> ErrNone, books |-> r,
                               catalog |-> catalog]
           \/ /\ fts = "query error"
              /\ search' = [q |-> q, fts |-> fts, err |-> ErrNone,
                            books |-> FallbackQuery(catalog, q), catalog |-> catalog]
           \/ /\ fts = "rows error"
              /\ search' = [q |-> q, fts |-> fts, err |-> ErrFts, books |-> <<>>,
                            catalog |-> catalog]
        /\ UNCHANGED <<db, now, last, pre, catalog, callerVars, authVars, mgrVars, migVars>>

\* Database.AddBook with a title and an author
AddBookTitled ==
    \E title \in Titles, author \in Authors :
        /\ Len(catalog) < MaxCatalog
        /\ catalog' = Append(catalog, [title |-> title, author |-> author])
        /\ db' = InsertBook(db)
        /\ UNCHANGED <<now, last, pre, search, callerVars, authVars, mgrVars, migVars>>

InitSearch ==
    /\ db = EmptyDb
    /\ catalog = <<>>
    /\ search = NoSearch
    /\ InitMigrated
    /\ now = 1
    /\ last = NoCall
    /\ pre = EmptyDb
    /\ InitCallers
    /\ InitNoAuth
    /\ InitNoMgr
    /\ sdb = EmptyDb

NextSearch ==
    \/ AddBookTitled
    \/ SearchBooks

SpecSearch == InitSearch /\ [][NextSearch]_vars

\* ------------------------------------------------------------------ opening the store
MigBooks == 2           \* rows of the books table in the runs that open the file
MigMembers == 1         \* rows of the members table in those runs
MaxFtsDuplicates == 2   \* rows of books_fts in excess of one for each book

MigLimits == Limits(MigBooks, MigMembers, 0, 0)

ErrDuplicateColumn == "apply migration 3: duplicate column name: password_hash"
ErrInterrupted == "process ended inside NewDatabase"

\* The file does not exist yet.
NoFile == [tables |-> FALSE, fts |-> FALSE, ftsDuplicates |-> 0,
           password_hash |-> FALSE, version |-> <<>>]

\* The file as a release with schema version 1 or 2 left it.
LegacyFile(v) == [tables |-> TRUE, fts |-> v >= 2, ftsDuplicates |-> 0,
                  password_hash |-> FALSE, version |-> <<v>>]

Closed == [Opened EXCEPT !.pc = "closed"]

\* What a NewDatabase call is compared on: the rows of the tables and the schema.
Snapshot == [db |-> db, schema |-> schema]

\* applyMigrations, up to the version it reads:
\*   CREATE TABLE IF NOT EXISTS schema_version; SELECT version ... LIMIT 1
NewDatabaseBegin ==
    /\ boot.pc \in {"closed", "failed"}
    /\ boot' = [pc |-> "migration1",
                currentVersion |-> IF schema.version = <<>> THEN 0
                                   ELSE schema.version[1],
                err |-> ErrNone, before |-> Snapshot, after |-> Snapshot]
    /\ UNCHANGED <<db, now, last, pre, schema, callerVars, authVars, mgrVars, searchVars>>

\* if currentVersion < 1 { applyMigration1 }: CREATE TABLE IF NOT EXISTS ...
ApplyMigration1 ==
    /\ boot.pc = "migration1"
    /\ schema' = IF boot.currentVersion < 1 THEN [schema EXCEPT !.tables = TRUE]
                 ELSE schema
    /\ boot' = [boot EXCEPT !.pc = "migration2"]
    /\ UNCHANGED <<db, now, last, pre, callerVars, authVars, mgrVars, searchVars>>

\* if currentVersion < 2 { applyMigration2 }: CREATE VIRTUAL TABLE IF NOT EXISTS
\* books_fts, CREATE TRIGGER IF NOT EXISTS, and INSERT OR IGNORE INTO books_fts
\* SELECT ... FROM books.  books_fts has no key the OR IGNORE could act on: a
\* row goes in for every book, also for the books that have one.
ApplyMigration2 ==
    /\ boot.pc = "migration2"
    /\ boot.currentVersion < 2 /\ schema.fts
          => schema.ftsDuplicates + Len(db.books) <= MaxFtsDuplicates
    /\ schema' = IF boot.currentVersion < 2
                 THEN [schema EXCEPT !.fts = TRUE,
                                     !.ftsDuplicates = IF schema.fts THEN @ + Len(db.books)
                                                        ELSE @]
                 ELSE schema
    /\ boot' = [boot EXCEPT !.pc = "migration3"]
    /\ UNCHANGED <<db, now, last, pre, callerVars, authVars, mgrVars, searchVars>>

\* applyMigration3: ALTER TABLE members ADD COLUMN password_hash, which fails
\* when the table has the column.
applyMigration3(s) ==
    IF s.password_hash THEN [err |-> ErrDuplicateColumn, schema |-> s]
    ELSE [err |-> ErrNone, schema |-> [s EXCEPT !.password_hash = TRUE]]

\* if currentVersion < 3 { applyMigration3 }; on its error NewDatabase closes the
\* file and returns the error.
ApplyMigration3 ==
    /\ boot.pc = "migration3"
    /\ LET r == IF boot.currentVersion < 3 THEN applyMigration3(schema)
                ELSE [err |-> ErrNone, schema |-> schema]
       IN  IF r.err # ErrNone
           THEN /\ boot' = [boot EXCEPT !.pc = "failed", !.err = r.err,
                                        !.after = Snapshot]
                /\ UNCHANGED schema
           ELSE /\ boot' = [boot EXCEPT !.pc = "version"]
                /\ schema' = r.schema
    /\ UNCHANGED <<db, now, last, pre, callerVars, authVars, mgrVars, searchVars>>

\* The version is recorded, by INSERT when no row was read and by UPDATE of
\* every row otherwise; NewDatabase returns the open store.
UpdateVersion ==
    /\ boot.pc = "version"
    /\ schema' = [schema EXCEPT !.version =
                     IF boot.currentVersion = 0 THEN Append(@, schemaVersion)
                     ELSE [i \in 1..Len(@) |-> schemaVersion]]
    /\ boot' = [boot EXCEPT !.pc = "open", !.err = ErrNone,
                            !.after = [db |-> db, schema |-> schema']]
    /\ UNCHANGED <<db, now, last, pre, callerVars, authVars, mgrVars, searchVars>>

\* The process ends between two statements of applyMigrations: every statement
\* was committed on its own, so the file stays as the last one left it.
Interrupt ==
    /\ boot.pc \in {"migration1", "migration2", "migration3", "version"}
    /\ boot' = [boot EXCEPT !.pc = "closed", !.err = ErrInterrupted]
    /\ UNCHANGED <<db, now, last, pre, schema, callerVars, authVars, mgrVars, searchVars>>

\* Database.Close
Close ==
    /\ boot.pc = "open"
    /\ boot' = [boot EXCEPT !.pc = "closed"]
    /\ UNCHANGED <<db, now, last, pre, schema, callerVars, authVars, mgrVars, searchVars>>

NewDatabase ==
    \/ NewDatabaseBegin
    \/ ApplyMigration1
    \/ ApplyMigration2
    \/ ApplyMigration3
    \/ UpdateVersion

\* No file yet, or the file of an earlier release with a book and a member.
InitMig ==
    /\ \/ /\ schema = NoFile
          /\ db = EmptyDb
       \/ /\ schema \in {LegacyFile(1), LegacyFile(2)}
          /\ db = WithMembers(InsertBook(EmptyDb), 1)
    /\ boot = Closed
    /\ InitNoSearch
    /\ now = 1
    /\ last = NoCall
    /\ pre = EmptyDb
    /\ InitCallers
    /\ InitNoAuth
    /\ InitNoMgr
    /\ sdb = EmptyDb

NextMig ==
    \/ NewDatabase
    \/ Interrupt
    \/ Close
    \/ boot.pc = "open" /\ AddBook(MigLimits)
    \/ boot.pc = "open" /\ AddMember(MigLimits)

SpecMig == InitMig /\ [][NextMig]_vars

\* ------------------------------------------------------------------ invariants of the store
\* C1: every book is available exactly when its borrower is NULL.
AvailableIffNoBorrower(d) ==
    \A b \in Books(d) : d.books[b].available <=> (d.books[b].borrower_id = NULL)

C1_AvailableIffBorrowerNull == AvailableIffNoBorrower(db)

\* C1 witness: a successful return has left one book available and another one held.
C1_Witness ==
    /\ \E b \in Books(db) : ~db.books[b].available /\ db.books[b].borrower_id # NULL
    /\ \E b \in Books(db) : db.books[b].available
    /\ last.op = "ReturnBook" /\ last.err = ErrNone
    /\ \E i \in 1..Len(db.checkouts) : db.checkouts[i].return_time # NULL

\* C2: each book has at most one open checkout record.
AtMostOneOpenCheckout(d) ==
    \A b \in Books(d) : Cardinality(OpenCheckouts(d, b)) <= 1

C2_AtMostOneOpenCheckout == AtMostOneOpenCheckout(db)

\* C2 witness: a return has handed a book on, closing one checkout and opening another.
C2_Witness ==
    /\ last.op = "ReturnBook" /\ last.err = ErrNone
    /\ \E b \in Books(db) :
        /\ last.book = b
        /\ Cardinality(OpenCheckouts(db, b)) = 1
        /\ \E i \in 1..Len(db.checkouts) :
            db.checkouts[i].book_id = b /\ db.checkouts[i].return_time # NULL

\* C3: a book is unavailable exactly when it has an open checkout record, and then
\* its borrower is the member of that open checkout.
CheckoutMatchesBook(d) ==
    \A b \in Books(d) :
        /\ ~d.books[b].available <=> OpenCheckouts(d, b) # {}
        /\ \A i \in OpenCheckouts(d, b) : d.checkouts[i].member_id = d.books[b].borrower_id

C3_UnavailableIffOpenCheckout == CheckoutMatchesBook(db)

\* C3 witness: a return handed the book to a queued member, whose checkout is the open one.
C3_Witness ==
    /\ last.op = "ReturnBook" /\ last.err = ErrNone
    /\ BookExists(db, last.book)
    /\ ~db.books[last.book].available
    /\ db.books[last.book].borrower_id # last.ret
    /\ \E i \in OpenCheckouts(db, last.book) :
        db.checkouts[i].member_id = db.books[last.book].borrower_id

\* C4: for each (book, member) pair there is at most one open reservation.
AtMostOneOpenReservation(d) ==
    \A b \in Books(d), m \in Members(d) : Cardinality(OpenReservationIdsOf(d, b, m)) <= 1

C4_AtMostOneOpenReservation == AtMostOneOpenReservation(db)

\* C4 witness: a second ReserveBook by a queued member was refused.
C4_Witness ==
    /\ last.op = "ReserveBook" /\ last.err = ErrDuplicateReservation
    /\ Cardinality(OpenReservationIdsOf(db, last.book, last.member)) = 1

\* ------------------------------------------------------------------ ReserveBook
\* The last call was ReserveBook(b, m) on an existing book by an existing member.
ReserveReturned(b, m) ==
    /\ last.op = "ReserveBook" /\ last.book = b /\ last.member = m
    /\ BookExists(pre, b) /\ MemberExists(pre, m)

\* C9: ReserveBook(b, m) on an available book by an existing member changes the store
\* exactly as CheckoutBook(b, m) does: b unavailable with borrower m, one new open
\* checkout (b, m), no reservation record.
C9_ReserveAvailableIsCheckout ==
    \A b \in Books(pre), m \in Members(pre) :
        (ReserveReturned(b, m) /\ pre.books[b].available) =>
            /\ last.err = ErrNone
            /\ CheckoutBookTx(pre, b, m).err = ErrNone
            /\ db = Committed(pre, CheckoutBookTx(pre, b, m))
            /\ db.books[b] = [available |-> FALSE, borrower_id |-> m]
            /\ db.checkouts =
                  Append(pre.checkouts, [book_id |-> b, member_id |-> m, return_time |-> NULL])
            /\ db.reservations = pre.reservations
            /\ db.resSeq = pre.resSeq

\* C9 witness: ReserveBook has just checked out an available book that had been
\* borrowed and returned before.
C9_Witness ==
    \E b \in Books(pre), m \in Members(pre) :
        /\ ReserveReturned(b, m) /\ pre.books[b].available
        /\ Len(pre.checkouts) > 0
        /\ db.books[b].borrower_id = m

\* The queues of the books other than b.
OtherQueuesUnchanged(b) ==
    \A x \in Books(pre) \ {b} : GetReservations(db, x) = GetReservations(pre, x)

\* C10: ReserveBook(b, m) on an unavailable book, m neither its holder nor queued for
\* it, appends exactly one open reservation (b, m) to the tail of b's queue and leaves
\* b's availability, its borrower and every checkout record as they were.
C10_ReserveQueuesAtTail ==
    \A b \in Books(pre), m \in Members(pre) :
        ( /\ ReserveReturned(b, m)
          /\ ~pre.books[b].available
          /\ pre.books[b].borrower_id # m
          /\ OpenReservationIdsOf(pre, b, m) = {} ) =>
            /\ last.err = ErrNone
            /\ GetReservations(db, b) = Append(GetReservations(pre, b), m)
            /\ Cardinality(OpenReservationIdsOf(db, b, m)) = 1
            /\ Len(db.reservations) = Len(pre.reservations) + 1
            /\ OtherQueuesUnchanged(b)
            /\ db.books = pre.books
            /\ db.checkouts = pre.checkouts

\* C10 witness: a member has joined a queue that already held another member who
\* reserved within the same second.
C10_Witness ==
    \E b \in Books(pre), m \in Members(pre) :
        /\ ReserveReturned(b, m) /\ last.err = ErrNone
        /\ ~pre.books[b].available
        /\ Len(GetReservations(pre, b)) = 1
        /\ Len(GetReservations(db, b)) = 2
        /\ \A i \in 1..Len(db.reservations) : db.reservations[i].reservation_time = now

\* ------------------------------------------------------------------ the queue is first in, first out
\* The open reservations of book b in the order in which their ReserveBook calls
\* committed (rowid order).
OpenInArrivalOrder(d, b) == SelectRows(d.reservations, OpenReservationIds(d, b))

MemberOf(rows) == [i \in 1..Len(rows) |-> rows[i].member_id]

\* No reservation of a book is fulfilled while one that arrived before it is open.
NoOvertaking(d) ==
    \A i, j \in 1..Len(d.reservations) :
        ( /\ i < j
          /\ d.reservations[i].book_id = d.reservations[j].book_id
          /\ d.reservations[j].fulfilled_time # NULL ) =>
            d.reservations[i].fulfilled_time # NULL

\* C5: members who queued for a book and did not cancel get it in the order in which
\* they queued: each ReturnBook hands the book to the member whose open reservation
\* arrived first and leaves the others waiting in their order, whatever other calls
\* came in between.
C5_FifoHandOver ==
    /\ NoOvertaking(db)
    /\ (last.op = "ReturnBook" /\ last.err = ErrNone) =>
          LET q == OpenInArrivalOrder(pre, last.book)
          IN  q # <<>> =>
                /\ db.books[last.book].borrower_id = q[1].member_id
                /\ MemberOf(OpenInArrivalOrder(db, last.book)) = Tail(MemberOf(q))
                /\ GetReservations(db, last.book) = Tail(MemberOf(q))

\* C5 witness: three members queued behind the holder, nobody cancelled, and three
\* returns have handed the book to them one after the other in that order.
C5_Witness ==
    /\ last.op = "ReturnBook" /\ last.err = ErrNone
    /\ Len(db.reservations) = 3 /\ Len(db.checkouts) = 4
    /\ \A i \in 1..3 :
        /\ db.reservations[i].id = i
        /\ db.reservations[i].fulfilled_time # NULL
        /\ db.checkouts[i + 1].member_id = db.reservations[i].member_id
    /\ Cardinality({db.checkouts[i].member_id : i \in 1..4}) = 4

\* ------------------------------------------------------------------ C6
\* Two callers whose ReserveBook calls on one book, for different members, have
\* both returned, ran at the same time, and were the only calls of the run since
\* the first of them began.
ReservePair(p, q) ==
    /\ p # q
    /\ tx[p].pc = "done" /\ tx[q].pc = "done"
    /\ tx[p].op = "ReserveBook" /\ tx[q].op = "ReserveBook"
    /\ tx[p].book = tx[q].book
    /\ tx[p].member # tx[q].member
    /\ q \in tx[p].overlap /\ p \in tx[q].overlap
    /\ \A r \in Procs \ {p, q} : tx[r].op = "none"

\* The call went down the available branch and committed its two statements.
ImmediateCheckout(c) == c.err = ErrNone /\ c.wrote = 2

\* The call committed the INSERT of a reservation that is open in the store.
Queued(c) ==
    /\ c.err = ErrNone
    /\ c.wrote = 1
    /\ Cardinality(OpenReservationIdsOf(db, c.book, c.member)) = 1

\* C6: when two ReserveBook calls by different members run concurrently on the
\* same available book, at most one ends as an immediate checkout; afterwards
\* the book has exactly one open checkout record and exactly one borrower, and
\* the other call was queued as a reservation or failed.
C6_OneImmediateCheckout ==
    \A p, q \in Procs :
        (ReservePair(p, q) /\ tx[p].inv.available /\ tx[q].inv.available) =>
            LET b == tx[p].book
                open == OpenCheckouts(db, b)
            IN  /\ ~(ImmediateCheckout(tx[p]) /\ ImmediateCheckout(tx[q]))
                /\ Cardinality(open) = 1
                /\ ~db.books[b].available
                /\ \A i \in open : db.checkouts[i].member_id = db.books[b].borrower_id
                /\ db.books[b].borrower_id \in {tx[p].member, tx[q].member}
                /\ ImmediateCheckout(tx[p]) => Queued(tx[q]) \/ tx[q].err # ErrNone
                /\ ImmediateCheckout(tx[q]) => Queued(tx[p]) \/ tx[p].err # ErrNone

\* Both calls read the book as available; one got the book, the other lost the
\* race for the write lock.
C6_Witness ==
    \E p, q \in Procs :
        /\ ReservePair(p, q) /\ tx[p].inv.available /\ tx[q].inv.available
        /\ ImmediateCheckout(tx[p])
        /\ tx[q].err = ErrBusy /\ ~tx[q].waited
        /\ db.books[tx[p].book].borrower_id = tx[p].member

\* ------------------------------------------------------------------ C7
\* C7: when two different members call ReserveBook concurrently on the same
\* unavailable book, neither holding it and neither queued, then (unless a lock
\* wait of one of them ran into the busy timeout) both calls succeed and
\* afterwards the queue has exactly one open reservation for each of them.
C7_BothQueued ==
    \A p, q \in Procs :
        ( /\ ReservePair(p, q)
          /\ ~tx[p].inv.available /\ ~tx[q].inv.available
          /\ tx[p].inv.borrower_id \notin {tx[p].member, tx[q].member}
          /\ ~tx[p].inv.queued /\ ~tx[q].inv.queued
          /\ ~tx[p].waited /\ ~tx[q].waited ) =>
            /\ tx[p].err = ErrNone
            /\ tx[q].err = ErrNone
            /\ Cardinality(OpenReservationIdsOf(db, tx[p].book, tx[p].member)) = 1
            /\ Cardinality(OpenReservationIdsOf(db, tx[q].book, tx[q].member)) = 1

\* ------------------------------------------------------------------ C8
\* The store is what the calls that did not fail on a lock leave when run one
\* after the other, in the order in which they returned.
SerialStore == db = sdb

\* The call of c returned what it returns in that serial order.
SerialResult(c) == c.err = c.serr /\ c.ret = c.sret

\* What a caller inside a transaction has read is the committed store, with
\* every unavailable book matched by its open checkout.
NoTornRead ==
    \A p \in Procs :
        tx[p].pc \in {"intx", "committing"} =>
            /\ tx[p].start = db
            /\ CheckoutMatchesBook(tx[p].start)
            /\ AvailableIffNoBorrower(tx[p].start)

\* What the calls do guarantee: a call that fails with "database is locked"
\* changes nothing; the final state and the results of the other calls equal
\* those of the serial order in which they returned; and no caller reads an
\* intermediate state of another call.
SerialExceptLocked ==
    /\ SerialStore
    /\ \A p \in Procs :
          (tx[p].pc = "done" /\ tx[p].op # "none" /\ tx[p].err # ErrBusy) => SerialResult(tx[p])
    /\ NoTornRead

\* C8: under any interleaving of concurrent CheckoutBook, ReserveBook,
\* ReturnBook and CancelReservation calls on the same book, the final state and
\* the results of the calls (those whose lock wait ran into the busy timeout
\* aside) equal those of a serial order of the calls, and no caller reads an
\* intermediate state of another call.
C8_SerialAllCalls ==
    /\ SerialStore
    /\ \A p \in Procs :
          (tx[p].pc = "done" /\ tx[p].op # "none" /\ ~tx[p].waited) => SerialResult(tx[p])
    /\ NoTornRead

\* ------------------------------------------------------------------ C11
\* Member m has the open checkout of book b in store d.
HoldsOpenCheckout(d, b, m) ==
    \E i \in OpenCheckouts(d, b) : d.checkouts[i].member_id = m

\* C11: ReserveBook(b, m) fails with the already-checked-out-by-self error
\* whenever m holds b's open checkout, and the failed call changes nothing: no
\* reservation is added and b's borrower and checkouts are unchanged.
C11_SelfReserveRejected ==
    (last.op = "ReserveBook" /\ HoldsOpenCheckout(pre, last.book, last.member)) =>
        /\ last.err = ErrAlreadyHave
        /\ db.reservations = pre.reservations
        /\ db.books = pre.books
        /\ db.checkouts = pre.checkouts

\* The holder was refused while another member waits in the queue of the book.
C11_Witness ==
    /\ last.op = "ReserveBook"
    /\ last.err = ErrAlreadyHave
    /\ HoldsOpenCheckout(pre, last.book, last.member)
    /\ OpenReservationIds(pre, last.book) # {}

\* ------------------------------------------------------------------ C12
\* C12: ReserveBook(b, m) fails with the duplicate-reservation error whenever m
\* already has an open reservation for b, and the queue of b (its members,
\* their order and its length) is unchanged by the failed call.
C12_DuplicateReserveRejected ==
    (last.op = "ReserveBook" /\ OpenReservationIdsOf(pre, last.book, last.member) # {}) =>
        /\ last.err = ErrDuplicateReservation
        /\ OpenQueue(db, last.book) = OpenQueue(pre, last.book)
        /\ GetReservations(db, last.book) = GetReservations(pre, last.book)
        /\ db = pre

\* A member reserved a second time while two members wait in the queue.
C12_Witness ==
    /\ last.op = "ReserveBook"
    /\ last.err = ErrDuplicateReservation
    /\ Len(OpenQueue(pre, last.book)) = 2
    /\ db = pre

\* ------------------------------------------------------------------ C13
\* Book b is checked out in store d: it has an open checkout.
CheckedOut(d, b) == BookExists(d, b) /\ OpenCheckouts(d, b) # {}

\* The rows of pre that are open checkouts of b are closed in db and otherwise
\* the same.
OpenCheckoutsClosed(b) ==
    \A i \in OpenCheckouts(pre, b) :
        /\ db.checkouts[i].return_time # NULL
        /\ db.checkouts[i].book_id = pre.checkouts[i].book_id
        /\ db.checkouts[i].member_id = pre.checkouts[i].member_id

\* The member who held b when the call began.
HolderBefore(b) == pre.checkouts[CHOOSE i \in OpenCheckouts(pre, b) : TRUE].member_id

\* C13: ReturnBook(b) on a checked-out book whose queue is non-empty closes the
\* holder's open checkout, closes the oldest open reservation, opens a new
\* checkout for that reservation's member, sets the borrower to that member
\* with the book still unavailable, leaves the rest of the queue in its
\* previous order, and returns the id of the member who held the book before.
C13_ReturnHandsOver ==
    (last.op = "ReturnBook" /\ CheckedOut(pre, last.book)
                            /\ OpenQueue(pre, last.book) # <<>>) =>
        LET b == last.book
            q == OpenQueue(pre, b)
            head == q[1]
        IN  /\ last.err = ErrNone
            /\ OpenCheckoutsClosed(b)
            /\ \E i \in 1..Len(db.reservations) :
                  /\ db.reservations[i].id = head.id
                  /\ db.reservations[i].fulfilled_time # NULL
            /\ Len(db.checkouts) = Len(pre.checkouts) + 1
            /\ OpenCheckouts(db, b) = {Len(db.checkouts)}
            /\ db.checkouts[Len(db.checkouts)] =
                  [book_id |-> b, member_id |-> head.member_id, return_time |-> NULL]
            /\ db.books[b] = [available |-> FALSE, borrower_id |-> head.member_id]
            /\ OpenQueue(db, b) = Tail(q)
            /\ last.ret = HolderBefore(b)
            /\ last.ret = pre.books[b].borrower_id

\* A return with three members waiting: two are left, in their order.
C13_Witness ==
    /\ last.op = "ReturnBook"
    /\ last.err = ErrNone
    /\ Len(OpenQueue(pre, last.book)) = 3
    /\ Len(OpenQueue(db, last.book)) = 2
    /\ db.books[last.book].borrower_id = OpenQueue(pre, last.book)[1].member_id

\* ------------------------------------------------------------------ C14
\* C14: ReturnBook(b) on a checked-out book with no open reservation closes the
\* open checkout, sets the book available with borrower null, opens no new
\* checkout, and returns the previous holder's id.
C14_ReturnMakesAvailable ==
    (last.op = "ReturnBook" /\ CheckedOut(pre, last.book)
                            /\ OpenQueue(pre, last.book) = <<>>) =>
        LET b == last.book
        IN  /\ last.err = ErrNone
            /\ OpenCheckoutsClosed(b)
            /\ db.books[b] = [available |-> TRUE, borrower_id |-> NULL]
            /\ Len(db.checkouts) = Len(pre.checkouts)
            /\ OpenCheckouts(db, b) = {}
            /\ db.reservations = pre.reservations
            /\ last.ret = HolderBefore(b)

\* A return of a book nobody waits for, by a member who got it from the queue.
C14_Witness ==
    /\ last.op = "ReturnBook"
    /\ last.err = ErrNone
    /\ db.books[last.book].available
    /\ \E i \in 1..Len(pre.reservations) :
          /\ pre.reservations[i].book_id = last.book
          /\ pre.reservations[i].member_id = last.ret
          /\ pre.reservations[i].fulfilled_time # NULL

\* ------------------------------------------------------------------ C15
\* C15: ReturnBook(b) on an existing book that has no open checkout (it is
\* available, borrower null) fails with the error "book is not checked out"
\* and changes no state.
C15_ReturnAvailableNotCheckedOut ==
    ( /\ last.op = "ReturnBook"
      /\ BookExists(pre, last.book)
      /\ OpenCheckouts(pre, last.book) = {}
      /\ pre.books[last.book] = [available |-> TRUE, borrower_id |-> NULL] ) =>
        /\ last.err = ErrBookNotCheckedOut
        /\ db = pre

\* ------------------------------------------------------------------ C16
\* C16: in every reachable state in which a book is checked out, whatever its
\* queue, ReturnBook on it succeeds, and ReturnBook called again on the store
\* the first call left, with no other call in between, fails with "book is not
\* checked out" and leaves the store unchanged.
C16_ReturnTwice ==
    (last.op = "ReturnBook" /\ CheckedOut(pre, last.book)) =>
        LET second == ReturnBookTx(db, last.book, now)
        IN  /\ last.err = ErrNone
            /\ second.err = ErrBookNotCheckedOut
            /\ Committed(db, second) = db

\* ------------------------------------------------------------------ C17
\* C17: CheckoutBook(b, m) succeeds exactly when b exists, b is available and m
\* exists, and then sets b unavailable with borrower m and opens one checkout
\* (b, m); in every other case it fails with "book not found", "book is not
\* available" or "member not found" and leaves all books, checkouts and
\* reservations unchanged.
C17_CheckoutBookContract ==
    last.op = "CheckoutBook" =>
        LET b == last.book
            m == last.member
            can == BookExists(pre, b) /\ pre.books[b].available /\ MemberExists(pre, m)
        IN  /\ last.err = ErrNone <=> can
            /\ can =>
                  /\ db.books = [pre.books EXCEPT ![b] = [available |-> FALSE, borrower_id |-> m]]
                  /\ db.checkouts = Append(pre.checkouts,
                        [book_id |-> b, member_id |-> m, return_time |-> NULL])
                  /\ OpenCheckouts(db, b) = {Len(db.checkouts)}
                  /\ db.reservations = pre.reservations
                  /\ db.members = pre.members
            /\ ~can =>
                  /\ last.err \in {ErrBookNotFound, ErrBookNotAvailable, ErrMemberNotFound}
                  /\ ~BookExists(pre, b) => last.err = ErrBookNotFound
                  /\ db = pre

\* A checkout refused because another member holds the book, after one that
\* went through is on record.
C17_Witness ==
    /\ last.op = "CheckoutBook"
    /\ last.err = ErrBookNotAvailable
    /\ MemberExists(pre, last.member)
    /\ pre.books[last.book].borrower_id # last.member
    /\ db = pre

\* ------------------------------------------------------------------ C18
\* The rows of a table without those of member m that are open for book b.
WithoutOpenOf(rows, b, m) ==
    SelectRows(rows, {rows[i].id : i \in
        {j \in 1..Len(rows) :
            ~(rows[j].book_id = b /\ rows[j].member_id = m /\ rows[j].fulfilled_time = NULL)}})

\* C18: a successful CancelReservation(b, m) removes exactly m's open
\* reservation for b: every other member's reservation for b stays open in the
\* same relative order, and no book's availability or borrower and no checkout
\* record changes.
C18_CancelRemovesOwnOnly ==
    (last.op = "CancelReservation" /\ last.err = ErrNone) =>
        LET b == last.book
            m == last.member
        IN  /\ Cardinality(OpenReservationIdsOf(pre, b, m)) = 1
            /\ OpenReservationIdsOf(db, b, m) = {}
            /\ Len(db.reservations) = Len(pre.reservations) - 1
            /\ db.reservations = WithoutOpenOf(pre.reservations, b, m)
            /\ OpenQueue(db, b) = WithoutOpenOf(OpenQueue(pre, b), b, m)
            /\ db.books = pre.books
            /\ db.checkouts = pre.checkouts
            /\ db.members = pre.members

\* The member in the middle of a queue of three cancelled: the two others are
\* left, in their order.
C18_Witness ==
    /\ last.op = "CancelReservation"
    /\ last.err = ErrNone
    /\ Len(OpenQueue(pre, last.book)) = 3
    /\ OpenQueue(pre, last.book)[2].member_id = last.member
    /\ GetReservations(db, last.book) =
          <<OpenQueue(pre, last.book)[1].member_id, OpenQueue(pre, last.book)[3].member_id>>

\* ------------------------------------------------------------------ C19
\* The reservations of the members other than m, as rows.
ReservationsOfOthers(d, m) ==
    {d.reservations[i] : i \in {j \in 1..Len(d.reservations) : d.reservations[j].member_id # m}}

\* C19: CancelReservation(b, m) fails with the no-active-reservation error and
\* changes nothing whenever m has no open reservation for b, in particular
\* when only other members have reservations for b or when m's reservation was
\* already fulfilled and m now holds b; and no call made with member id m
\* (CancelReservation, ReserveBook, CheckoutBook) removes or changes a
\* reservation of another member.
C19_CancelWithoutReservation ==
    /\ (last.op = "CancelReservation"
            /\ OpenReservationIdsOf(pre, last.book, last.member) = {}) =>
          /\ last.err = ErrNoActiveReservation
          /\ db = pre
    /\ last.op \in {"CancelReservation", "ReserveBook", "CheckoutBook"} =>
          ReservationsOfOthers(db, last.member) = ReservationsOfOthers(pre, last.member)

\* The member got the book from the queue and holds it, another member waits
\* for it, and the holder's cancel was refused.
C19_Witness ==
    /\ last.op = "CancelReservation"
    /\ last.err = ErrNoActiveReservation
    /\ BookExists(pre, last.book)
    /\ pre.books[last.book].borrower_id = last.member
    /\ \E i \in 1..Len(pre.reservations) :
          /\ pre.reservations[i].book_id = last.book
          /\ pre.reservations[i].member_id = last.member
          /\ pre.reservations[i].fulfilled_time # NULL
    /\ ReservationsOfOthers(pre, last.member) # {}
    /\ OpenReservationIds(pre, last.book) # {}
    /\ db = pre

\* ------------------------------------------------------------------ C20
\* What AuthenticateMember does guarantee: it succeeds if and only if the
\* member exists, has a credential, and the password tried and the password
\* most recently set give bcrypt the same key.
AuthenticatesByKey ==
    auth.op = "AuthenticateMember" =>
        (auth.err = ErrNone <=>
            /\ auth.member \in 1..Len(memberRows)
            /\ lastSet[auth.member].set
            /\ BcryptKey(auth.password) = BcryptKey(lastSet[auth.member].password))

\* C20: AuthenticateMember(m, p) succeeds if and only if member m exists, has a
\* credential set, and p equals the password most recently set for m by
\* AddMember or by a successful ResetMemberPassword.
C20_AuthenticatesIffLastSet ==
    auth.op = "AuthenticateMember" =>
        (auth.err = ErrNone <=>
            /\ auth.member \in 1..Len(memberRows)
            /\ memberRows[auth.member].password_hash.valid
            /\ lastSet[auth.member].set
            /\ auth.password = lastSet[auth.member].password)

\* ------------------------------------------------------------------ C21
\* The error of AuthenticateMember for a member id that no row has.
UnknownMemberErr(password) ==
    AuthenticateMemberErr(memberRows, Len(memberRows) + 1, password)

\* What AuthenticateMember does guarantee: a wrong password for a member with
\* a credential gives the error an unknown member id gives.
WrongPasswordLikeUnknownId ==
    (/\ auth.op = "AuthenticateMember"
     /\ auth.err # ErrNone
     /\ auth.member \in 1..Len(memberRows)
     /\ memberRows[auth.member].password_hash.valid) =>
        auth.err = UnknownMemberErr(auth.password)

\* C21: a failed AuthenticateMember(m, p) does not reveal whether member m
\* exists: whatever the credential state of m, every failing outcome is the
\* error that an unknown member id yields.
C21_FailureHidesExistence ==
    (auth.op = "AuthenticateMember" /\ auth.err # ErrNone) =>
        auth.err = UnknownMemberErr(auth.password)

\* ------------------------------------------------------------------ C22
\* C22: VerifyReturnAuthorization(b, m) succeeds if and only if book b exists,
\* is checked out, and its current borrower is m; it fails for every other
\* member, and it never changes the store.
C22_VerifyReturnAuthorization ==
    last.op = "VerifyReturnAuthorization" =>
        /\ db = pre
        /\ last.err = ErrNone <=>
              /\ BookExists(pre, last.book)
              /\ ~pre.books[last.book].available
              /\ pre.books[last.book].borrower_id = last.member
        /\ \A m \in 1..MgrMemberIds :
              (last.err = ErrNone /\ m # last.member) =>
                  VerifyReturnAuthorizationTx(pre, last.book, m).err # ErrNone

\* The book was handed from its borrower to the head of the queue, and the new
\* borrower was found authorized to return it.
C22_Witness ==
    /\ last.op = "VerifyReturnAuthorization"
    /\ last.err = ErrNone
    /\ \E i \in 1..Len(db.reservations) :
          /\ db.reservations[i].book_id = last.book
          /\ db.reservations[i].member_id = last.member
          /\ db.reservations[i].fulfilled_time # NULL

\* ------------------------------------------------------------------ C23
\* C23: every CheckoutBook, ReserveBook, ReturnBook and CancelReservation call
\* eventually returns, with success or with an error, whatever the other
\* callers do: no call waits forever for a lock of the store, and no calls
\* block one another for ever.
C23_EveryCallReturns ==
    \A p \in Procs : (tx[p].pc # "done") ~> (tx[p].pc = "done")

\* Two calls overlapped, one kept its read lock while the other waited to
\* commit, and the one that waited came back with the lock error.
C23_Witness ==
    \E p \in Procs :
        /\ tx[p].pc = "done"
        /\ tx[p].overlap # {}
        /\ tx[p].waited
        /\ tx[p].err = ErrBusy
        /\ tx[p].op # "CancelReservation"

\* ------------------------------------------------------------------ C24
\* The step in which caller p is refused a lock of the store: the busy timeout
\* ran out before its first statement or at Commit, or its first write met the
\* lock of another writer.
LockRefused(p) == BusyTimeout(p) \/ WriteLocked(p) \/ CommitTimeout(p)

\* C24: a state-changing call that cannot get the lock of the store, at
\* whichever step, returns the lock error to its caller after that one attempt
\* (the handler does not begin again), and the statements its transaction had
\* executed are rolled back: the store is as it was, and only the commit of a
\* call changes it.
C24_LockFailureRollsBack ==
    [][ /\ \A p \in Procs :
             /\ LockRefused(p) => (tx'[p].pc = "done" /\ tx'[p].err = ErrBusy)
             /\ (tx[p].pc # "done" /\ tx'[p].pc = "done" /\ tx'[p].err = ErrBusy) =>
                   /\ db' = db
                   /\ tx'[p].wrote = 0
                   /\ p \notin shared'
                   /\ reserved' # p
                   /\ pending' # p
             /\ tx[p].pc \in {"intx", "committing"} => tx'[p].pc # "begun"
        /\ db' # db => \E p \in Procs : CommitFinish(p) /\ tx'[p].err # ErrBusy
      ]_vars

\* A call had executed every statement of its transaction when Commit was
\* refused the lock; it returned the lock error and its statements were undone.
C24_Witness ==
    \E p \in Procs :
        /\ tx[p].pc = "done"
        /\ tx[p].err = ErrBusy
        /\ tx[p].undone > 1
        /\ tx[p].wrote = 0
        /\ db = sdb

\* ------------------------------------------------------------------ C25
\* Text q occurs in text s as a substring.
Contains(s, q) ==
    \E k \in 0..(Len(s) - Len(q)) : SubSeq(s, k + 1, k + Len(q)) = q

\* What SearchBooks does guarantee: when db.Query on the full-text index
\* returns an error, it reports no error and returns, in id order, the books
\* whose title or author is LIKE %q%; when the index query fails later, at the
\* first row, it returns that error.
FallsBackToLike ==
    /\ search.fts = "query error" =>
          /\ search.err = ErrNone
          /\ search.books = FallbackQuery(search.catalog, search.q)
          /\ \A i \in 1..Len(search.catalog) :
                (Contains(search.catalog[i].title, search.q) \/ Contains(search.catalog[i].author, search.q))
                    => \E k \in 1..Len(search.books) : search.books[k] = i
    /\ search.fts = "rows error" => search.err # ErrNone

\* C25: when the query of the full-text index fails, SearchBooks reports no
\* error and returns exactly the books whose title or author contains the
\* query text as a substring, in id order.
C25_FallbackIsSubstringScan ==
    search.fts \in {"query error", "rows error"} =>
        /\ search.err = ErrNone
        /\ search.books =
              OrderById({i \in 1..Len(search.catalog) :
                           \/ Contains(search.catalog[i].title, search.q)
                           \/ Contains(search.catalog[i].author, search.q)})

\* ------------------------------------------------------------------ C26
\* The last call was a ReadBook by an existing member of an available book
\* with content that is not blank.
ReadOfAvailableBook ==
    /\ BookExists(pre, last.book)
    /\ MemberExists(pre, last.member)
    /\ pre.books[last.book].available
    /\ ~IsBlank(content[last.book])

\* The book of the last call is checked out to the member of that call.
CheckedOutToCaller ==
    /\ ~db.books[last.book].available
    /\ db.books[last.book].borrower_id = last.member
    /\ HoldsOpenCheckout(db, last.book, last.member)

\* What holds of ReadBook of library/manager.go: it checks an available book
\* out to the reader and then opens the reader.
ReadBookAutoCheckout ==
    (last.op = "ReadBook" /\ ReadOfAvailableBook) =>
        /\ last.err = ErrNone
        /\ last.ret = ReaderOpened
        /\ CheckedOutToCaller

\* C26: ReadBook(b, m) on an available book with non-blank content checks the
\* book out to m before reading: after the call the book is unavailable, its
\* borrower is m, and an open checkout (b, m) exists.
C26_ReadBookChecksOut ==
    (/\ last.op \in {"ReadBook", "ReadBook (ValidateReadBookAccess)"}
     /\ ReadOfAvailableBook) =>
        CheckedOutToCaller

\* ------------------------------------------------------------------ C27
ReadBookOps == {"ReadBook", "ReadBook (ValidateReadBookAccess)"}

\* The errors with which ReadBook refuses access to the book.
AccessRefused == {ErrCheckedOutBy, ErrCheckedOutByAnother, ErrAvailableNotYours}

\* Member m got book b through the queue and holds it in store d.
HandedOver(d, b, m) ==
    /\ BookExists(d, b)
    /\ ~d.books[b].available
    /\ d.books[b].borrower_id = m
    /\ \E i \in 1..Len(d.reservations) :
          /\ d.reservations[i].book_id = b
          /\ d.reservations[i].member_id = m
          /\ d.reservations[i].fulfilled_time # NULL

\* C27: ReadBook(b, m) fails, without opening the reader and without changing
\* the store, whenever b is checked out to a member other than m, also when m
\* has an open reservation for b; once a ReturnBook has handed b to m through
\* the queue, ReadBook(b, m) is not refused access, and opens the reader when
\* the book has content.
C27_ReadBookOnlyByBorrower ==
    last.op \in ReadBookOps =>
        /\ (/\ BookExists(pre, last.book)
            /\ ~pre.books[last.book].available
            /\ pre.books[last.book].borrower_id # last.member) =>
               /\ last.err # ErrNone
               /\ last.ret = ReaderNotOpened
               /\ db = pre
        /\ HandedOver(pre, last.book, last.member) =>
               /\ last.err \notin AccessRefused
               /\ ~IsBlank(content[last.book]) =>
                     (last.err = ErrNone /\ last.ret = ReaderOpened)

\* The book went from its borrower to the head of the queue; a member who
\* reserved it after that, and waits, tried to read it and was refused.
C27_Witness ==
    /\ last.op \in ReadBookOps
    /\ last.err \in AccessRefused
    /\ OpenReservationIdsOf(pre, last.book, last.member) # {}
    /\ \E m \in Members(pre) : m # last.member /\ HandedOver(pre, last.book, m)
    /\ ~IsBlank(content[last.book])
    /\ db = pre

\* A call the second half of C27 is about: the member who got the book
\* through the queue reads it.
HandedOverMemberReads ==
    /\ last.op \in ReadBookOps
    /\ last.err = ErrNone
    /\ last.ret = ReaderOpened
    /\ HandedOver(pre, last.book, last.member)

\* ------------------------------------------------------------------ C28
\* ReserveBook with its validations in the order book-not-found,
\* member-not-found, already-checked-out-by-self, duplicate-reservation, and
\* only then the immediate checkout or the queue.
ReserveBookSelfAndDuplicateFirst(d, b, m, t) ==
    IF ~BookExists(d, b) THEN TxResult(ErrBookNotFound, 0, <<>>)
    ELSE IF ~MemberExists(d, m) THEN TxResult(ErrMemberNotFound, 0, <<>>)
    ELSE IF HoldsOpenCheckout(d, b, m) THEN TxResult(ErrAlreadyHave, 0, <<>>)
    ELSE IF OpenReservationIdsOf(d, b, m) # {}
    THEN TxResult(ErrDuplicateReservation, 0, <<>>)
    ELSE IF d.books[b].available
    THEN TxResult(ErrNone, 0, ReserveImmediateCheckout(d, b, m))
    ELSE TxResult(ErrNone, 0, <<InsertReservation(d, b, m, t)>>)

\* C28: in every reachable state and for every book id and member id,
\* ReserveBook, which tests availability before the self-holder and duplicate
\* tests, returns what the order book-not-found, member-not-found,
\* already-checked-out-by-self, duplicate-reservation, then immediate checkout
\* or queue returns, and leaves the same store.
C28_ReserveOrderEquivalent ==
    \A b \in 1..MaxBooks, m \in 1..MaxMembers :
        LET code == ReserveBookTx(db, b, m, now)
            ordered == ReserveBookSelfAndDuplicateFirst(db, b, m, now)
        IN  /\ code.err = ordered.err
            /\ code.ret = ordered.ret
            /\ Committed(db, code) = Committed(db, ordered)

\* A member who once waited for the book and got it from the queue reserved it
\* again when it was available, and got it at once.
C28_Witness ==
    /\ last.op = "ReserveBook"
    /\ last.err = ErrNone
    /\ BookExists(pre, last.book)
    /\ pre.books[last.book].available
    /\ \E i \in 1..Len(pre.reservations) :
          /\ pre.reservations[i].book_id = last.book
          /\ pre.reservations[i].member_id = last.member
          /\ pre.reservations[i].fulfilled_time # NULL
    /\ HoldsOpenCheckout(db, last.book, last.member)

\* ------------------------------------------------------------------ C29
\* C29: per book, the only transitions are Available to CheckedOut, by a
\* successful CheckoutBook or by ReserveBook or ReadBook on an available book,
\* and CheckedOut to Available, by a successful ReturnBook that finds the queue
\* empty; the borrower of a book that stays CheckedOut changes only in a
\* ReturnBook that fulfils a reservation, to the head of the queue; a
\* ReserveBook that queues and CancelReservation change neither availability
\* nor borrower.
C29_BookStateMachine ==
    [][ /\ \A b \in Books(db) :
             LET was == db.books[b]
                 is == db'.books[b]
                 byCall(ops) == /\ last'.op \in ops
                                /\ last'.book = b
             IN  /\ (was.available /\ ~is.available) =>
                       /\ byCall({"CheckoutBook", "ReserveBook", "ReadBook"})
                       /\ last'.op # "ReadBook" => last'.err = ErrNone
                       /\ is.borrower_id = last'.member
                 /\ (~was.available /\ is.available) =>
                       /\ byCall({"ReturnBook"})
                       /\ last'.err = ErrNone
                       /\ OpenQueue(db, b) = <<>>
                       /\ is.borrower_id = NULL
                 /\ (~was.available /\ ~is.available
                        /\ is.borrower_id # was.borrower_id) =>
                       /\ byCall({"ReturnBook"})
                       /\ last'.err = ErrNone
                       /\ OpenQueue(db, b) # <<>>
                       /\ is.borrower_id = OpenQueue(db, b)[1].member_id
                 /\ (was.available /\ is.available) =>
                       is.borrower_id = was.borrower_id
        /\ (db' # db /\ last'.op = "CancelReservation") => db'.books = db.books
        /\ (db' # db /\ last'.op = "ReserveBook"
               /\ ~db.books[last'.book].available) => db'.books = db.books
      ]_vars

\* A ReturnBook call handed the book from its borrower to the member at the
\* head of the queue: the book stayed checked out and its borrower changed.
C29_Witness ==
    /\ last.op = "ReturnBook"
    /\ last.err = ErrNone
    /\ ~db.books[last.book].available
    /\ db.books[last.book].borrower_id # pre.books[last.book].borrower_id
    /\ \E i \in 1..Len(db.reservations) :
          /\ db.reservations[i].book_id = last.book
          /\ db.reservations[i].member_id = db.books[last.book].borrower_id
          /\ db.reservations[i].fulfilled_time # NULL
    /\ Len(db.checkouts) = 2
    /\ rd.pc = "idle"

\* ------------------------------------------------------------------ C30
\* What ReturnBookWithDetails does guarantee: returnedBy is the member whose
\* checkout its return step closed.
ReturnedByIsCloser ==
    (rd.pc = "done" /\ rd.err = ErrNone) => rd.returnedBy = rd.closed

\* C30: ReturnBookWithDetails(b) returns returnedBy equal to the member whose
\* checkout that return closed, and assignedTo equal to the member to whom that
\* same return handed the book through the queue, 0 exactly when that return
\* made the book available; also when calls of other callers on b run between
\* its reads and its return step.
C30_DetailsOfOwnReturn ==
    (rd.pc = "done" /\ rd.op = "ReturnBookWithDetails" /\ rd.err = ErrNone) =>
        /\ rd.returnedBy = rd.closed
        /\ rd.assignedTo = rd.handed

\* ------------------------------------------------------------------ C31
\* C31: the authorized ReturnBook(b, m) and ReturnBookWithDetails(b, m) close
\* only a checkout held by m: when they succeed the returned member id is m and
\* the checkout their return step closed was held by m, also when calls of
\* other callers on b run between the authorization check and the return.
C31_AuthorizedReturnClosesOwnCheckout ==
    (rd.pc = "done" /\ rd.authorized /\ rd.err = ErrNone) =>
        /\ rd.returnedBy = rd.member
        /\ rd.closed = rd.member

\* ------------------------------------------------------------------ C32
\* C32: the reserve command reports the outcome of its own ReserveBook call:
\* it reports the immediate checkout if and only if that call checked the book
\* out, and reports the reservation if and only if that call inserted a
\* reservation.
C32_ReserveCommandReportsOwnOutcome ==
    cmd.pc = "done" =>
        /\ cmd.report = ReportImmediate <=> cmd.branch = "ImmediateCheckout"
        /\ cmd.report \in {ReportQueued, ReportReserved} <=> cmd.branch = "Queued"

\* ------------------------------------------------------------------ C33
\* The reservations of book b made within one tick are listed in the order
\* their ReserveBook calls committed (the order of their ids).
SameTickInCommitOrder(d, b) ==
    LET q == OpenQueue(d, b)
    IN  \A i, j \in 1..Len(q) :
            (i < j /\ q[i].reservation_time = q[j].reservation_time)
                => q[i].id < q[j].id

NoQueueWhileAvailable(d) ==
    \A b \in Books(d) : d.books[b].available => OpenReservationIds(d, b) = {}

\* C34: in every reachable state an available book has no open reservations; a
\* reservation queue exists only while the book is checked out.
C34_AvailableBookHasNoQueue == NoQueueWhileAvailable(db)

\* A ReturnBook made a book available that members had waited for: its
\* reservations are all fulfilled.
C34_Witness ==
    /\ last.op = "ReturnBook"
    /\ last.err = ErrNone
    /\ db.books[last.book].available
    /\ \E i \in 1..Len(db.reservations) :
          /\ db.reservations[i].book_id = last.book
          /\ db.reservations[i].fulfilled_time # NULL

\* ------------------------------------------------------------------ C35
\* The borrower of a book has no open reservation for it.
BorrowerNotQueued(d) ==
    \A b \in Books(d) :
        d.books[b].borrower_id # NULL
            => OpenReservationIdsOf(d, b, d.books[b].borrower_id) = {}

\* C35: in every reachable state the member who holds a book's open checkout
\* has no open reservation for that same book.
C35_HolderHasNoOpenReservation ==
    /\ BorrowerNotQueued(db)
    /\ \A i \in 1..Len(db.checkouts) :
          db.checkouts[i].return_time = NULL
              => OpenReservationIdsOf(db, db.checkouts[i].book_id,
                                      db.checkouts[i].member_id) = {}

\* A ReturnBook handed a book to a member who had reserved it while another
\* member still waits: the new holder's reservation is fulfilled, not open.
C35_Witness ==
    /\ last.op = "ReturnBook"
    /\ last.err = ErrNone
    /\ db.books[last.book].borrower_id # NULL
    /\ OpenReservationIdsOf(pre, last.book, db.books[last.book].borrower_id) # {}
    /\ OpenReservationIds(db, last.book) # {}

\* ------------------------------------------------------------------ C36
\* The reservation rows whose fulfilled_time differs between two stores with
\* the same rows.
FulfilmentChanged(before, after) ==
    {before.reservations[i].id : i \in
        {j \in 1..Len(before.reservations) :
            after.reservations[j].fulfilled_time
                # before.reservations[j].fulfilled_time}}

\* C36: a ReturnBook changes the fulfilled_time of exactly one reservation row,
\* the open one at the head of the queue that it fulfils, and of none when
\* nobody waits; rows already fulfilled, among them earlier fulfilled
\* reservations of the same member for the same book, and the rows of other
\* members and other books stay as they were.
C36_ReturnFulfilsOneReservation ==
    (last.op = "ReturnBook" /\ last.err = ErrNone) =>
        /\ Len(db.reservations) = Len(pre.reservations)
        /\ \A i \in 1..Len(pre.reservations) :
              db.reservations[i] =
                  [pre.reservations[i] EXCEPT
                      !.fulfilled_time = db.reservations[i].fulfilled_time]
        /\ FulfilmentChanged(pre, db) =
              IF OpenQueue(pre, last.book) = <<>> THEN {}
              ELSE {OpenQueue(pre, last.book)[1].id}

\* ------------------------------------------------------------------ C37
\* The place of member m in the queue of book b: 1 for the head, 0 when m has
\* no open reservation for b.
QueuePlace(d, b, m) ==
    LET q == OpenQueue(d, b)
        at == {i \in 1..Len(q) : q[i].member_id = m}
    IN  IF at = {} THEN 0 ELSE CHOOSE i \in at : \A j \in at : i <= j

\* C37: when every holder of the book eventually returns it, a member with an
\* open reservation for it eventually becomes its borrower unless that member
\* cancels; no later reserver and no direct checkout gets ahead of a member who
\* waits: no call moves a waiting member back in the queue, and every
\* successful ReturnBook moves every waiting member one place forward.
C37_QueuedMemberBecomesBorrower ==
    /\ \A m \in 1..LiveMembers :
          (QueuePlace(db, 1, m) > 0)
              ~> \/ db.books[1].borrower_id = m
                 \/ /\ last.op = "CancelReservation"
                    /\ last.member = m
                    /\ last.err = ErrNone
    /\ [][\A m \in 1..LiveMembers :
             QueuePlace(db, 1, m) > 0 =>
                /\ (QueuePlace(db', 1, m) > 0
                       => QueuePlace(db', 1, m) <= QueuePlace(db, 1, m))
                /\ (QueuePlace(db', 1, m) = 0 =>
                       \/ db'.books[1].borrower_id = m
                       \/ /\ last'.op = "CancelReservation"
                          /\ last'.member = m
                          /\ last'.err = ErrNone)
                /\ (db' # db /\ last'.op = "ReturnBook" /\ last'.err = ErrNone)
                       => QueuePlace(db', 1, m) = QueuePlace(db, 1, m) - 1
                /\ db'.books[1].borrower_id # db.books[1].borrower_id
                       => /\ last'.op = "ReturnBook"
                          /\ db'.books[1].borrower_id = OpenQueue(db, 1)[1].member_id
         ]_vars

\* A member who reserved behind another member has become the borrower: two
\* returns handed the book on, first to the member ahead, then to this one.
C37_Witness ==
    /\ last.op = "ReturnBook"
    /\ last.err = ErrNone
    /\ QueuePlace(pre, 1, db.books[1].borrower_id) = 1
    /\ \E i \in 1..Len(db.reservations) :
          /\ db.reservations[i].member_id = db.books[1].borrower_id
          /\ db.reservations[i].id = 2
          /\ db.reservations[i].fulfilled_time # NULL
    /\ \E i \in 1..Len(db.reservations) :
          /\ db.reservations[i].member_id = pre.books[1].borrower_id
          /\ db.reservations[i].id = 1
          /\ db.reservations[i].fulfilled_time # NULL

\* ------------------------------------------------------------------ C38
\* What the store holds about book y: its row, its checkout records and its
\* reservation records.
OfBook(d, y) ==
    LET ofY(r) == r.book_id = y
    IN  [book |-> d.books[y],
         checkouts |-> SelectSeq(d.checkouts, ofY),
         reservations |-> SelectSeq(d.reservations, ofY)]

\* C38: CheckoutBook, ReserveBook, ReturnBook and CancelReservation applied to
\* book X change neither the availability, the borrower, the checkout records
\* nor the reservation queue of any other book Y.
C38_OtherBooksUntouched ==
    last.op \in {"CheckoutBook", "ReserveBook", "ReturnBook", "CancelReservation"} =>
        /\ Books(db) = Books(pre)
        /\ \A y \in Books(pre) \ {last.book} :
              /\ OfBook(db, y) = OfBook(pre, y)
              /\ OpenQueue(db, y) = OpenQueue(pre, y)

\* A ReturnBook handed book X on to a waiting member while another book Y is
\* checked out and has a member waiting for it.
C38_Witness ==
    /\ last.op = "ReturnBook"
    /\ last.err = ErrNone
    /\ db.books[last.book].borrower_id # pre.books[last.book].borrower_id
    /\ OfBook(db, last.book) # OfBook(pre, last.book)
    /\ \E y \in Books(db) \ {last.book} :
          /\ ~db.books[y].available
          /\ OpenQueue(db, y) # <<>>

\* ------------------------------------------------------------------ C39
\* C39: a ReadBook call that returns an error (book or member not found, book
\* held by another member, book without content or with white space only)
\* leaves the availability and the borrower of every book and all checkout
\* records as they were.
C39_FailedReadBookChangesNothing ==
    (last.op \in ReadBookOps /\ last.err # ErrNone) =>
        /\ db.books = pre.books
        /\ db.checkouts = pre.checkouts

\* ------------------------------------------------------------------ C40
\* The file had the whole schema when NewDatabase was called: the tables, the
\* full-text index and the password_hash column, with version 3 on record or
\* with no version row.
HadSchema(s) ==
    /\ s.tables
    /\ s.fts
    /\ s.password_hash
    /\ s.version \in {<<>>, <<schemaVersion>>}

\* C40: NewDatabase on a file that already has the schema, whether version 3
\* is on record or the migrations ran and the version row was never written,
\* succeeds, leaves tables and data as they were, and ends with exactly one
\* schema_version row, holding 3.
C40_NewDatabaseRerunnable ==
    (boot.pc \in {"open", "failed"} /\ HadSchema(boot.before.schema)) =>
        /\ boot.pc = "open"
        /\ boot.err = ErrNone
        /\ boot.after.db = boot.before.db
        /\ boot.after.schema = [boot.before.schema EXCEPT !.version = <<schemaVersion>>]
====
